---- MODULE Spec2Model ----
(***************************************************************************)
(* Copy-trading replication pipeline (leader account -> follower account). *)
(*                                                                         *)
(* Two generations of the pipeline live in the repository and both are     *)
(* modelled; the variable arch says which one a behaviour runs:            *)
(*   "v1"  Task-001: CopyTradingOrchestrator + OrderManager +              *)
(*         OrderStreamManager                                              *)
(*   "v2"  Task-009: CopyTradingSystem + OrderReplicator +                 *)
(*         LiveOrderUpdateManager                                          *)
(* Both use DatabaseManager and PositionSizer.  The sizer modelled is the   *)
(* PositionSizer of the repository (position_sizing/position_sizer.py).    *)
(* Writes to the store are taken to succeed.                               *)
(*                                                                         *)
(* The specifications:                                                     *)
(*   Spec        the pipeline on a connected stream: leader orders, stream *)
(*               events, the clock, the balances                           *)
(*   SpecStream  the stream coordinator: drops, monitor_connection called  *)
(*               periodically, reconnect with replay of the order list     *)
(*   SpecStore   the mapping writes of DatabaseManager on their own        *)
(*   SpecBracket execution, rejection and cancel events on a placed copy,  *)
(*               with the bracket-order leg table                          *)
(*   SpecBreaker CircuitBreaker of utils/resilience.py with two callers    *)
(*   SpecRetry   RetryStrategy.execute and the resilient_api_call wrapper  *)
(*   SpecLimiter RateLimiter of utils/resilience.py, a token bucket         *)
(*   SpecLifecycle, SpecLifecycleFair  the orchestrator: start, event      *)
(*               loop, signal, shutdown; the second with a fair event loop *)
(*   SpecThreads gap recovery on the reconnecting thread and live events   *)
(*               on the stream callback, a delivery taken in two steps     *)
(*   SpecProducts  leader orders of every product type (basic, cover,      *)
(*               bracket, with disclosed quantity) through the pipeline    *)
(*   SpecSizer   PositionSizer.calculate_quantity over strategies,         *)
(*               balances, instruments and premiums                        *)
(*   SpecEvents  the order_events log: execution events and explicit       *)
(*               save_order_event calls on a placed copy                   *)
(*                                                                         *)
(* A handler of the program is one action.  Its body is written as a chain *)
(* of state transformers over a record st that carries the part of the     *)
(* state the handler reads and writes, so that a call made inside a        *)
(* handler (a store write, a funds refresh, a broker command) is part of   *)
(* the same step.  What the environment decides during a handler (the      *)
(* broker's answer, the funds API, the time a network call takes) is the   *)
(* record env, drawn from small sets by the action.                        *)
(***************************************************************************)
EXTENDS Integers, Sequences, FiniteSets, TLC

\* ------------------------------------------------------------------ bounds
MaxFollowerIds == 2
\* rows of the order_events table a behaviour may write
MaxEvents == 3
MaxTicks == 1
MaxBreakerTicks == 4
MaxAttemptsBound == 7
LimiterRate == 2
LimiterBurst == 2
SubTokens == 2
MaxLimiterTicks == 4
TickSeconds == 31
StartTime == 100000

\* ------------------------------------------------------- program constants
FundsTtl == 30
MaxPositionSizePct == 10
NoPremiumPositionValue == 100
NoPremiumMargin == 50
HeartbeatTimeout == 60
MaxReconnectAttempts == 10
ReconnectDelay == 1
MaxReconnectDelay == 60
NoWatermarkLookback == 3600
FailureThreshold == 5
RecoveryTimeout == 60
SuccessThreshold == 2
DefaultMaxAttempts == 3
BackoffFactor == 2
MaxBackoff == 30
JitterLow == 75
JitterHigh == 125

\* ------------------------------------------------------------ value spaces
\* the leader order ids the broker hands out, in the order of its order list
LeaderIdSeq == <<1, 2>>
Leaders == {LeaderIdSeq[i] : i \in DOMAIN LeaderIdSeq}
FollowerIds == {10 + i : i \in 1..MaxFollowerIds}
NoId == 0
\* an Optional[float] column holding None
NoValue == -1
\* rowids of the bracket_order_legs table, in the order SELECT returns them
LegIdSeq == <<1, 2>>
LegIds == {LegIdSeq[i] : i \in DOMAIN LegIdSeq}
\* keys of the orders table (one id more than the broker hands out)
OrderIds == Leaders \cup {10 + i : i \in 1..(MaxFollowerIds + 1)}

NewStatuses == {"PENDING", "TRANSIT", "OPEN"}
ExecStatuses == {"TRADED", "EXECUTED", "PARTIALLY_FILLED"}
TerminalStatuses == {"EXECUTED", "TRADED", "CANCELLED", "REJECTED"}

\* copy_mappings row; status "none" stands for "no row for this leader id"
NoRow == [status |-> "none", follower_order_id |-> NoId, leader_quantity |-> 0,
          follower_quantity |-> 0, capital_ratio |-> <<0, 1>>,
          error_message |-> "none"]

\* orders row; account_type "none" stands for "no row for this order id"
NoOrder == [account_type |-> "none", status |-> "none", security_id |-> "none",
            quantity |-> 0, bo_profit_value |-> NoValue]

\* bracket_order_legs row as get_bracket_order_legs returns it;
\* parent_order_id NoId stands for "no row with this rowid"
NoLeg == [id |-> 0, parent_order_id |-> NoId, leg_type |-> "none",
          leg_order_id |-> NoId, status |-> "none"]

\* entry of the leader's order list at the broker
NoLeaderOrder == [orderId |-> NoId, securityId |-> "none", quantity |-> 0,
                  price |-> 0, createTime |-> 0, createTimeType |-> "none",
                  orderStatus |-> "none", legType |-> "none",
                  productType |-> "none", stopLossValue |-> 0,
                  boStopLossValue |-> 0, boProfitValue |-> 0,
                  disclosedQuantity |-> 0]

NoFunds == [leader |-> -1, follower |-> -1]

\* instruments table (read-mostly cache, loaded out of band)
Instrument(security_id) ==
    CASE security_id = "OPT" -> [found |-> TRUE, lot_size |-> 50, is_option |-> TRUE]
      [] security_id = "EQ" -> [found |-> TRUE, lot_size |-> 1, is_option |-> FALSE]
      [] OTHER -> [found |-> FALSE, lot_size |-> 0, is_option |-> FALSE]

VARIABLES
    arch,            \* "v1" | "v2"
    strategy,        \* SystemConfig.sizing_strategy
    copy_ratio,      \* SystemConfig.copy_ratio as <<num, den>>, <<0, 0>> = None
    mappings,        \* copy_mappings table, by leader order id
    orders,          \* orders table, by order id
    bracket_order_legs, \* bracket_order_legs table, by rowid
    order_events,    \* order_events table, in rowid order
    watermark,       \* config['last_leader_event_ts'], 0 = not set
    funds_cache,     \* PositionSizer._leader_funds/_follower_funds
    funds_last_updated, \* PositionSizer._funds_last_updated
    now,             \* int(time.time())
    ticks,           \* number of clock advances so far (bounded by MaxTicks)
    sys_state,       \* orchestrator: "created" | "ready" | "exited"
    broker_funds,    \* what get_fund_limits would answer
    next_fid,        \* index of the next order id the broker assigns
    accepted,        \* per leader id: follower ids the broker accepted
    leader_orders,   \* the leader's order list at the broker
    link_up,         \* the broker's stream endpoint is reachable
    is_connected,    \* stream manager flag
    is_running,      \* stream manager flag
    was_disconnected, \* stream manager flag
    reconnect_attempts, \* stream manager counter
    last_heartbeat,  \* stream manager timestamp
    created_down,    \* leader ids created while the stream was down
    passed,          \* of these, the ones passed to the order handler since
    last,            \* what the last step did
    orch_running,    \* orchestrator: self.is_running
    orch_state,      \* orchestrator: self.state (Task-009: what its log reports)
    db_open,         \* the store connection is open
    signalled,       \* an interrupt or terminate signal was delivered
    shutdown_steps,  \* the steps shutdown() has completed, in order
    exit_code,       \* exit code of the process, NoValue while it runs
    handling,        \* per thread: the leader order it is replicating, past
                     \* the idempotency check and before the mapping write
    replay_queue,    \* leader order ids _fetch_missed_orders still has to replay
    cb_state,        \* CircuitBreaker.state
    failure_count,   \* CircuitBreaker.failure_count
    success_count,   \* CircuitBreaker.success_count
    last_failure_time, \* CircuitBreaker.last_failure_time, NoValue = None
    cb_now,          \* time.time() as the breaker reads it
    cb_ticks,        \* number of advances of cb_now (bounded)
    pc,              \* per caller thread: "idle" | "calling" (inside func)
    admitted_in,     \* per caller in flight: breaker state at its admission
    fail_run,        \* failures recorded since the last recorded success
    probe_run,       \* successes of probes since half-open began, no failure between
    cb_last,         \* what the last breaker step did
    rt_pc,           \* retry wrapper: "idle" | "loop" | "done"
    rt_via,          \* how the wrapper was built: "decorator" | "resilient_api_call"
    rt_max_attempts, \* RetryStrategy.max_attempts
    rt_exceptions,   \* RetryStrategy.exceptions, as the failure kinds it catches
    rt_attempt,      \* loop variable attempt
    rt_invocations,  \* number of times func was invoked in this call
    rt_successes,    \* of these, the ones that returned
    rt_sleeps,       \* number of time.sleep calls in this call
    rt_backoff,      \* backoff of the last sleep, seconds (NoValue = none)
    rt_slept,        \* argument of the last sleep, 1/100 s (NoValue = none)
    rt_outcome,      \* what the last invocation of func did
    rt_result,       \* "none" | "returned" | "raised" | "type_error"
    lim_tokens,      \* RateLimiter.tokens, in 1/SubTokens of a token
    lim_last_update, \* RateLimiter.last_update, in time units
    lim_now,         \* time.time() as the limiter reads it, in time units
    lim_pc,          \* per caller thread: "idle" | "sleeping" (in time.sleep)
    lim_wake,        \* per sleeping caller: the time its sleep ends
    lim_req,         \* per sleeping caller: the tokens it asked for
    lim_mode,        \* per sleeping caller: "wrapper" | "acquire"
    lim_issued,      \* per time unit: commands (func calls) started in it
    lim_granted,     \* tokens taken so far, in 1/SubTokens of a token
    lim_last         \* what the last limiter step did

pipelineVars == <<arch, strategy, copy_ratio, mappings, orders, bracket_order_legs,
          order_events,
          watermark, funds_cache,
          funds_last_updated, now, ticks, sys_state, broker_funds, next_fid, accepted,
          leader_orders, link_up, is_connected, is_running, was_disconnected,
          reconnect_attempts, last_heartbeat, created_down, passed, last,
          orch_running, orch_state, db_open, signalled, shutdown_steps, exit_code,
          handling, replay_queue>>

threadVars == <<handling, replay_queue>>

lifecycleVars == <<orch_running, orch_state, db_open, signalled, shutdown_steps,
                   exit_code>>

breakerVars == <<cb_state, failure_count, success_count, last_failure_time, cb_now,
                 cb_ticks, pc, admitted_in, fail_run, probe_run, cb_last>>

retryVars == <<rt_pc, rt_via, rt_max_attempts, rt_exceptions, rt_attempt,
               rt_invocations, rt_successes, rt_sleeps, rt_backoff, rt_slept,
               rt_outcome, rt_result>>

limiterVars == <<lim_tokens, lim_last_update, lim_now, lim_pc, lim_wake, lim_req,
                 lim_mode, lim_issued, lim_granted, lim_last>>

utilVars == <<retryVars, limiterVars>>

vars == <<pipelineVars, breakerVars, utilVars>>

\* ------------------------------------------------------------ rationals
\* Python floats of the sizer are modelled as exact fractions <<num, den>>.
Min(a, b) == IF a <= b THEN a ELSE b
RatLe(a, b) == a[1] * b[2] <= b[1] * a[2]
RatMin(a, b) == IF RatLe(a, b) THEN a ELSE b

\* ------------------------------------------------------------ sequencing
\* "x = step(...); rest": the result of a step is computed once and the rest
\* of the handler works on that value
Then(result, Rest(_)) == CHOOSE r \in {Rest(x) : x \in {result}} : TRUE

\* ---------------------------------------------------------------- store
\* DatabaseManager.get_copy_mapping_by_leader
GetCopyMappingByLeader(st, leader_order_id) ==
    IF leader_order_id \in DOMAIN st.map THEN st.map[leader_order_id] ELSE NoRow

\* DatabaseManager.save_copy_mapping: INSERT OR REPLACE keyed by leader id
SaveCopyMapping(st, leader_order_id, row) ==
    [st EXCEPT !.map[leader_order_id] = row]

\* DatabaseManager.update_copy_mapping_status: UPDATE ... WHERE leader_order_id
UpdateCopyMappingStatus(st, leader_order_id, status, follower_order_id, error_message) ==
    LET old == st.map[leader_order_id] IN
    IF old.status = "none" THEN st
    ELSE IF follower_order_id # NoId
         THEN [st EXCEPT !.map[leader_order_id] =
                 [old EXCEPT !.status = status,
                             !.follower_order_id = follower_order_id,
                             !.error_message = error_message]]
         ELSE [st EXCEPT !.map[leader_order_id] =
                 [old EXCEPT !.status = status, !.error_message = error_message]]

\* DatabaseManager.get_order: the row, or None (NoOrder) when there is none
GetOrder(st, id) == IF id \in DOMAIN st.ord THEN st.ord[id] ELSE NoOrder

\* DatabaseManager.save_order: INSERT OR REPLACE by id
SaveOrder(st, id, row) == [st EXCEPT !.ord[id] = row]

\* DatabaseManager.update_order_status: UPDATE ... WHERE id
UpdateOrderStatus(st, id, status) ==
    IF GetOrder(st, id).account_type = "none" THEN st
    ELSE [st EXCEPT !.ord[id].status = status]

\* the unique index of order_events on (order_id, sequence): does a row with
\* this key exist?  A NULL sequence equals no other, as in any unique index
\* of the database engine.
UniqueIndexConflict(events, order_id, sequence) ==
    /\ sequence # NoValue
    /\ \E i \in DOMAIN events :
          events[i].order_id = order_id /\ events[i].sequence = sequence

\* DatabaseManager.save_order_event: INSERT OR IGNORE; sequence NoValue is
\* the None an OrderEvent built without a sequence carries
SaveOrderEvent(st, order_id, event_type, sequence) ==
    IF UniqueIndexConflict(st.ev, order_id, sequence) THEN st
    ELSE [st EXCEPT !.ev = Append(@, [order_id |-> order_id,
                                      event_type |-> event_type,
                                      sequence |-> sequence])]

\* DatabaseManager.set_config_value('last_leader_event_ts', ...)
SetWatermark(st, ts) == [st EXCEPT !.wm = ts]

\* ---------------------------------------------------------------- sizer
\* PositionSizer._refresh_funds(force=False); api is what get_fund_limits does
RefreshFunds(st, api) ==
    IF (st.now - st.upd) > FundsTtl
    THEN IF api = "raise"
         THEN [st EXCEPT !.exc = TRUE]
         ELSE [st EXCEPT !.cache = st.bf, !.upd = st.now]
    ELSE st

\* PositionSizer.get_capital_ratio, on fresh funds
CapitalRatio(funds) ==
    IF funds.leader = 0 THEN <<0, 1>> ELSE <<funds.follower, funds.leader>>

\* PositionSizer._round_to_lot_size
\* the rounding without its one-lot minimum
RoundToLotSize_NoMinimum(quantity, lot_size) ==
    IF quantity[1] <= 0 THEN 0
    ELSE (quantity[1] \div (quantity[2] * lot_size)) * lot_size

RoundToLotSize(quantity, lot_size) ==
    IF quantity[1] <= 0 THEN 0
    ELSE LET num_lots == quantity[1] \div (quantity[2] * lot_size) IN
         (IF num_lots < 1 THEN 1 ELSE num_lots) * lot_size

\* PositionSizer._calculate_capital_proportional
CalculateCapitalProportional(funds, leader_quantity) ==
    LET r == CapitalRatio(funds) IN <<leader_quantity * r[1], r[2]>>

\* PositionSizer._calculate_fixed_ratio
CalculateFixedRatio(funds, leader_quantity, ratio) ==
    IF ratio[2] = 0 THEN CalculateCapitalProportional(funds, leader_quantity)
    ELSE <<leader_quantity * ratio[1], ratio[2]>>

\* PositionSizer._calculate_risk_based
CalculateRiskBased(funds, leader_quantity, premium) ==
    IF premium = 0 THEN CalculateCapitalProportional(funds, leader_quantity)
    ELSE RatMin(<<funds.follower * MaxPositionSizePct, 100 * premium>>,
                <<leader_quantity, 1>>)

\* PositionSizer._apply_risk_limits, on fresh funds
ApplyRiskLimits(funds, quantity, lot_size, premium) ==
    IF quantity = 0 THEN 0
    ELSE LET position_value == IF premium # 0 THEN quantity * premium
                               ELSE quantity * NoPremiumPositionValue
             exceeds == position_value * 100 > funds.follower * MaxPositionSizePct
             max_lots == IF premium # 0
                         THEN (funds.follower * MaxPositionSizePct)
                                 \div (100 * premium * lot_size)
                         ELSE (quantity \div lot_size) - 1
         IN IF exceeds THEN max_lots * lot_size ELSE quantity

\* does this sizing run read the funds (and so refresh them when stale)?
SizingReadsFunds(strat, ratio, premium) ==
    \/ strat = "capital_proportional"
    \/ strat = "fixed_ratio" /\ ratio[2] = 0
    \/ strat = "risk_based"

RawQuantity(strat, ratio, funds, leader_quantity, premium) ==
    CASE strat = "capital_proportional" ->
            CalculateCapitalProportional(funds, leader_quantity)
      [] strat = "fixed_ratio" -> CalculateFixedRatio(funds, leader_quantity, ratio)
      [] strat = "risk_based" -> CalculateRiskBased(funds, leader_quantity, premium)
      [] OTHER -> <<leader_quantity, 1>>

\* PositionSizer.calculate_quantity; yields [st, qty]
CalculateQuantity(st, api, leader_quantity, security_id, premium) ==
    LET instrument == Instrument(security_id) IN
    IF ~instrument.found THEN [st |-> st, qty |-> leader_quantity]
    ELSE
    Then(IF SizingReadsFunds(st.strategy, st.copy_ratio, premium)
         THEN RefreshFunds(st, api) ELSE st, LAMBDA s1 :
    IF s1.exc THEN [st |-> s1, qty |-> 0]
    ELSE
    Then(RoundToLotSize(RawQuantity(s1.strategy, s1.copy_ratio, s1.cache,
                                    leader_quantity, premium),
                        instrument.lot_size), LAMBDA adjusted :
    Then(IF adjusted = 0 THEN s1 ELSE RefreshFunds(s1, api), LAMBDA s2 :
    IF s2.exc THEN [st |-> s2, qty |-> 0]
    ELSE [st |-> s2,
          qty |-> ApplyRiskLimits(s2.cache, adjusted, instrument.lot_size,
                                  premium)])))

\* PositionSizer.validate_sufficient_margin; yields [st, ok, msg]
ValidateSufficientMargin(st, api, quantity, security_id, premium) ==
    IF quantity = 0 THEN [st |-> st, ok |-> FALSE, msg |-> "quantity_is_0"]
    ELSE
    LET instrument == Instrument(security_id)
        estimated_margin == IF premium # 0 THEN quantity * premium
                            ELSE quantity * NoPremiumMargin
    IN
    Then(RefreshFunds(st, api), LAMBDA s1 :
    IF s1.exc THEN [st |-> s1, ok |-> FALSE, msg |-> "exception"]
    ELSE IF ~instrument.found
    THEN [st |-> s1, ok |-> FALSE, msg |-> "instrument_not_found"]
    ELSE IF estimated_margin > s1.cache.follower
    THEN [st |-> s1, ok |-> FALSE, msg |-> "insufficient_margin"]
    ELSE [st |-> s1, ok |-> TRUE, msg |-> "none"])

\* --------------------------------------------------------------- broker
\* follower_client.place_order: the broker accepts the command and assigns a
\* fresh order id, or does not (an error answer, or an exception the callers
\* turn into None).  The call takes env.latency seconds.
PlaceAtBroker(st, leader_order_id, env) ==
    IF env.broker = "accept"
    THEN [st EXCEPT !.issued = TRUE, !.now = @ + env.latency,
                    !.ticks = @ + (IF env.latency > 0 THEN 1 ELSE 0),
                    !.fid = 10 + st.next_fid,
                    !.next_fid = @ + 1,
                    !.acc[leader_order_id] = @ \cup {10 + st.next_fid}]
    ELSE [st EXCEPT !.issued = TRUE, !.now = @ + env.latency,
                    !.ticks = @ + (IF env.latency > 0 THEN 1 ELSE 0),
                    !.fid = NoId]

\* one placement command as the broker client receives it; disclosed
\* quantity NoValue stands for None / not sent
PlacementCall(api, o, quantity, disclosed_qty) ==
    [api |-> api, quantity |-> quantity, price |-> o.price,
     disclosed_quantity |-> disclosed_qty]

\* "int(follower_quantity * (disclosed_qty / quantity))" capped by the
\* follower quantity; NoValue when the leader order discloses nothing
ProportionalDisclosedQty(o, follower_quantity) ==
    IF o.disclosedQuantity # 0 /\ follower_quantity > 0
    THEN Min((follower_quantity * o.disclosedQuantity) \div o.quantity,
             follower_quantity)
    ELSE NoValue

\* OrderReplicator.replicate_order: the follower's disclosed quantity
FollowerDisclosedQtyV2(o, follower_quantity) ==
    ProportionalDisclosedQty(o, follower_quantity)

\* OrderManager.replicate_order: the follower's disclosed quantity, one lot
\* when the proportional value is zero
FollowerDisclosedQtyV1(o, follower_quantity) ==
    LET proportional == ProportionalDisclosedQty(o, follower_quantity)
        instrument == Instrument(o.securityId)
    IN IF proportional = 0 /\ o.disclosedQuantity > 0 /\ instrument.found
       THEN instrument.lot_size
       ELSE proportional

\* OrderReplicator._place_basic_order
PlaceBasicOrder(st, o, follower_quantity, disclosed_qty, env) ==
    [PlaceAtBroker(st, o.orderId, env) EXCEPT !.apis =
        Append(@, PlacementCall("place_order", o, follower_quantity,
                                disclosed_qty))]

\* "if not stop_loss_value" of _place_cover_order, negated
\* every cover order taken to carry its stop-loss
CoverOrderComplete_Always(o) == TRUE

CoverOrderComplete(o) == o.stopLossValue # 0

\* "if not stop_loss_value or not profit_value" of _place_bracket_order,
\* negated
BracketOrderComplete(o) == o.boStopLossValue # 0 /\ o.boProfitValue # 0

\* OrderReplicator._place_cover_order
PlaceCoverOrder(st, o, follower_quantity, disclosed_qty, env) ==
    IF ~CoverOrderComplete(o) THEN [st EXCEPT !.fid = NoId]
    ELSE [PlaceAtBroker(st, o.orderId, env) EXCEPT !.apis =
            Append(@, PlacementCall("place_cover_order", o, follower_quantity,
                                    disclosed_qty))]

\* OrderReplicator._place_bracket_order
PlaceBracketOrder(st, o, follower_quantity, disclosed_qty, env) ==
    IF ~BracketOrderComplete(o) THEN [st EXCEPT !.fid = NoId]
    ELSE [PlaceAtBroker(st, o.orderId, env) EXCEPT !.apis =
            Append(@, PlacementCall("place_bracket_order", o, follower_quantity,
                                    disclosed_qty))]

\* "Place order based on product type" of OrderReplicator.replicate_order
PlaceByProductType(st, o, follower_quantity, disclosed_qty, env) ==
    Then([st EXCEPT !.routed = o.productType], LAMBDA s0 :
    CASE o.productType = "CO" ->
            PlaceCoverOrder(s0, o, follower_quantity, disclosed_qty, env)
      [] o.productType = "BO" ->
            PlaceBracketOrder(s0, o, follower_quantity, disclosed_qty, env)
      [] OTHER -> PlaceBasicOrder(s0, o, follower_quantity, disclosed_qty, env))

\* ------------------------------------------------------- replication (v2)
\* the test "existing_mapping and existing_mapping.status == 'placed'"
\* the idempotency gate left out
AlreadyReplicated_Never(existing_mapping) == FALSE

AlreadyReplicated(existing_mapping) ==
    existing_mapping.status # "none" /\ existing_mapping.status = "placed"

\* the test "if follower_order_id:" after the placement
\* the answer of the placement taken as a success whatever it is
PlacementSucceeded_Always(follower_order_id) == TRUE

PlacementSucceeded(follower_order_id) == follower_order_id # NoId

\* OrderReplicator._save_failed_mapping / OrderManager._create_copy_mapping
\* with status 'failed': capital ratio lookup, then save_copy_mapping
\* the failed mapping not written
SaveFailedMapping_Skipped(st, api, leader_order_id, leader_quantity, follower_quantity, error_message) ==
    st

SaveFailedMapping(st, api, leader_order_id, leader_quantity, follower_quantity, error_message) ==
    Then(RefreshFunds(st, api), LAMBDA s1 :
    IF s1.exc THEN s1
    ELSE SaveCopyMapping(s1, leader_order_id,
            [status |-> "failed", follower_order_id |-> NoId,
             leader_quantity |-> leader_quantity,
             follower_quantity |-> follower_quantity,
             capital_ratio |-> CapitalRatio(s1.cache),
             error_message |-> error_message]))

\* OrderReplicator._save_copy_mapping: capital ratio lookup, then
\* save_copy_mapping
SavePlacedMapping(st, api, leader_order_id, follower_order_id, leader_quantity, follower_quantity, status) ==
    Then(RefreshFunds(st, api), LAMBDA s1 :
    IF s1.exc THEN s1
    ELSE SaveCopyMapping(s1, leader_order_id,
            [status |-> status, follower_order_id |-> follower_order_id,
             leader_quantity |-> leader_quantity,
             follower_quantity |-> follower_quantity,
             capital_ratio |-> CapitalRatio(s1.cache),
             error_message |-> "none"]))

\* the part of replicate_order after the sizer and the margin check passed,
\* OrderReplicator: place, then write the mapping
PlaceAndRecordV2(st, o, follower_quantity, env) ==
    Then(PlaceByProductType(st, o, follower_quantity,
                            FollowerDisclosedQtyV2(o, follower_quantity), env),
         LAMBDA s1 :
    IF PlacementSucceeded(s1.fid)
    THEN Then(SavePlacedMapping(s1, env.funds, o.orderId, s1.fid, o.quantity,
                                follower_quantity, "placed"), LAMBDA s2 :
         IF s2.exc THEN s2 ELSE [s2 EXCEPT !.ret = s1.fid])
    ELSE SaveFailedMapping(s1, env.funds, o.orderId, o.quantity,
                           follower_quantity, "failed_to_place"))

\* OrderReplicator.replicate_order after the "already replicated" check:
\* sizing, margin check, placement, mapping
SizeAndPlaceV2(st, o, env) ==
    LET premium == IF o.price > 0 THEN o.price ELSE 0 IN
    Then(CalculateQuantity(st, env.funds, o.quantity, o.securityId, premium),
         LAMBDA c :
    IF c.st.exc THEN c.st
    ELSE IF c.qty = 0
    THEN SaveFailedMapping([c.st EXCEPT !.sizer_zero = TRUE], env.funds,
                           o.orderId, o.quantity, 0, "calculated_quantity_is_0")
    ELSE
    Then(ValidateSufficientMargin(c.st, env.funds, c.qty, o.securityId, premium),
         LAMBDA v :
    IF v.st.exc THEN v.st
    ELSE IF ~v.ok
    THEN SaveFailedMapping([v.st EXCEPT !.margin_fail = TRUE], env.funds,
                           o.orderId, o.quantity, c.qty, v.msg)
    ELSE PlaceAndRecordV2(v.st, o, c.qty, env)))

\* OrderReplicator.replicate_order (the whole try block; an exception makes
\* it return None)
ReplicateOrderV2(st, o, env) ==
    LET existing_mapping == GetCopyMappingByLeader(st, o.orderId)
    IN
    IF AlreadyReplicated(existing_mapping)
    THEN [st EXCEPT !.ret = existing_mapping.follower_order_id]
    ELSE SizeAndPlaceV2(st, o, env)

\* ------------------------------------------------------- replication (v1)
\* OrderManager._create_order_from_data + save_order for the leader order
SaveLeaderOrder(st, o, status) ==
    SaveOrder(st, o.orderId,
              [account_type |-> "leader", status |-> status,
               security_id |-> o.securityId, quantity |-> o.quantity,
               bo_profit_value |-> NoValue])

\* OrderManager._place_follower_order: broker call, then the follower order
\* row with status PENDING
PlaceFollowerOrder(st, o, follower_quantity, env) ==
    Then([PlaceAtBroker([st EXCEPT !.routed = o.productType], o.orderId, env)
            EXCEPT !.apis = Append(@, PlacementCall("place_order", o,
                follower_quantity,
                IF FollowerDisclosedQtyV1(o, follower_quantity) > 0
                THEN FollowerDisclosedQtyV1(o, follower_quantity)
                ELSE NoValue))],
         LAMBDA s1 :
    IF s1.fid # NoId
    THEN SaveOrderEvent(
            SaveOrder(s1, s1.fid,
                   [account_type |-> "follower", status |-> "PENDING",
                    security_id |-> o.securityId, quantity |-> follower_quantity,
                    bo_profit_value |-> NoValue]),
            s1.fid, "PLACED", 1)
    ELSE s1)

\* OrderManager: place, then update_copy_mapping_status
PlaceAndRecordV1(st, o, follower_quantity, env) ==
    Then(PlaceFollowerOrder(st, o, follower_quantity, env), LAMBDA s1 :
    IF PlacementSucceeded(s1.fid)
    THEN [UpdateCopyMappingStatus(s1, o.orderId, "placed", s1.fid, "none")
            EXCEPT !.ret = s1.fid]
    ELSE UpdateCopyMappingStatus(s1, o.orderId, "failed", NoId, "failed_to_place"))

\* OrderManager.replicate_order after the "already replicated" check: the
\* option filter, sizing, margin check, placement, mapping
SizeAndPlaceV1(s0, o, env) ==
    LET premium == IF o.price > 0 THEN o.price ELSE 0
        instrument == Instrument(o.securityId)
    IN
    IF instrument.found /\ ~instrument.is_option THEN s0
    ELSE
    Then(CalculateQuantity(s0, env.funds, o.quantity, o.securityId, premium),
         LAMBDA c :
    IF c.st.exc THEN c.st
    ELSE IF c.qty = 0
    THEN SaveFailedMapping([c.st EXCEPT !.sizer_zero = TRUE], env.funds,
                           o.orderId, o.quantity, 0, "calculated_quantity_is_0")
    ELSE
    Then(ValidateSufficientMargin(c.st, env.funds, c.qty, o.securityId, premium),
         LAMBDA v :
    IF v.st.exc THEN v.st
    ELSE IF ~v.ok
    THEN SaveFailedMapping([v.st EXCEPT !.margin_fail = TRUE], env.funds,
                           o.orderId, o.quantity, c.qty, v.msg)
    ELSE PlaceAndRecordV1(v.st, o, c.qty, env)))

\* OrderManager.replicate_order (the whole try block)
ReplicateOrderV1(st, o, status, env) ==
    LET existing_mapping == GetCopyMappingByLeader(st, o.orderId)
    IN
    Then(SaveLeaderOrder(st, o, status), LAMBDA s0 :
    IF AlreadyReplicated(existing_mapping)
    THEN [s0 EXCEPT !.ret = existing_mapping.follower_order_id]
    ELSE SizeAndPlaceV1(s0, o, env))

\* ------------------------------------------------------ bracket legs (v1)
\* the dictionaries carrying the order id under the key the loops read
GetBracketOrderLegs_OrderIdKey(st, parent_order_id) ==
    LET OfParent(leg) == leg.parent_order_id = parent_order_id
        Row(leg) == [k \in DOMAIN leg \cup {"order_id"} |->
                        IF k = "order_id" THEN leg.leg_order_id ELSE leg[k]]
    IN SelectSeq([i \in DOMAIN LegIdSeq |-> Row(st.legs[LegIdSeq[i]])], OfParent)

\* DatabaseManager.get_bracket_order_legs: the rows of the parent as a list
\* of dictionaries with the keys id, parent_order_id, leg_type, leg_order_id,
\* status
GetBracketOrderLegs(st, parent_order_id) ==
    LET OfParent(leg) == leg.parent_order_id = parent_order_id
    IN SelectSeq([i \in DOMAIN LegIdSeq |-> st.legs[LegIdSeq[i]]], OfParent)

\* DatabaseManager.update_bracket_order_leg_status: UPDATE ... WHERE id
UpdateBracketOrderLegStatus(st, leg_id, status) ==
    IF st.legs[leg_id].parent_order_id = NoId THEN st
    ELSE [st EXCEPT !.legs[leg_id].status = status]

\* leg[key] raises KeyError when the dictionary has no such key
KeyError(leg, key) == key \notin DOMAIN leg

\* follower_client.cancel_order: the cancel command goes to the broker
CancelAtBroker(st, order_id) ==
    [st EXCEPT !.cancel_issued = TRUE, !.cancels = Append(@, order_id)]

\* the loop "for leg in legs" of _cancel_bracket_order_legs and
\* _handle_bracket_order_oco over the legs its "if" selects: the log line
\* reads leg['order_id'] outside the inner try, so a KeyError ends the loop;
\* inside the inner try the cancel command is sent and, unless it raises,
\* the leg row is set to CANCELLED
RECURSIVE CancelLegs(_, _, _)
CancelLegs(st, selected, env) ==
    IF selected = <<>> THEN st
    ELSE LET leg == Head(selected) IN
         IF KeyError(leg, "order_id") THEN st
         ELSE Then(CancelAtBroker(st, leg["order_id"]), LAMBDA s1 :
              Then(IF env.cancel = "raise" THEN s1
                   ELSE UpdateBracketOrderLegStatus(s1, leg.id, "CANCELLED"),
                   LAMBDA s2 : CancelLegs(s2, Tail(selected), env)))

\* OrderManager._cancel_bracket_order_legs
CancelBracketOrderLegs(st, parent_order_id, env) ==
    LET Pending(leg) == leg.status \notin TerminalStatuses
    IN CancelLegs(st, SelectSeq(GetBracketOrderLegs(st, parent_order_id), Pending),
                  env)

\* OrderManager._handle_bracket_order_oco
HandleBracketOrderOco(st, parent_order_id, o, env) ==
    LET legs == GetBracketOrderLegs(st, parent_order_id)
        executed_leg_type == o.legType
        opposite_leg_type == IF executed_leg_type = "target" THEN "stop_loss"
                             ELSE "target"
        Opposite(leg) == /\ leg.leg_type = opposite_leg_type
                         /\ leg.status \notin TerminalStatuses
    IN IF legs = <<>> THEN st
       ELSE IF executed_leg_type = "none" THEN st
       ELSE CancelLegs(st, SelectSeq(legs, Opposite), env)

\* ------------------------------------------------------ cancellation (v1)
\* the test "follower_order.status in ('EXECUTED', 'TRADED', 'CANCELLED',
\* 'REJECTED')" of cancel_order
\* the terminal-state test left out
FollowerIsTerminal_Never(follower_order) == FALSE

FollowerIsTerminal(follower_order) == follower_order.status \in TerminalStatuses

\* OrderManager.cancel_order (the whole try block); st.ok is its return value
CancelOrder(st, o, env) ==
    Then(UpdateOrderStatus(st, o.orderId, "CANCELLED"), LAMBDA s1 :
    LET mapping == GetCopyMappingByLeader(s1, o.orderId)
        follower_order == GetOrder(s1, mapping.follower_order_id)
    IN
    IF mapping.status = "none" THEN s1
    ELSE IF mapping.follower_order_id = NoId THEN s1
    ELSE IF follower_order.account_type = "none" THEN s1
    ELSE IF FollowerIsTerminal(follower_order) THEN s1
    ELSE
    Then(IF follower_order.bo_profit_value # NoValue
         THEN CancelBracketOrderLegs(s1, mapping.follower_order_id, env)
         ELSE s1, LAMBDA s2 :
    Then(CancelAtBroker(s2, mapping.follower_order_id), LAMBDA s3 :
    IF env.cancel = "success"
    THEN Then(UpdateOrderStatus(s3, mapping.follower_order_id, "CANCELLED"),
              LAMBDA s4 :
         [UpdateCopyMappingStatus(s4, o.orderId, "cancelled", NoId,
                                  "leader_order_cancelled")
            EXCEPT !.ok = TRUE])
    ELSE s3)))

\* OrderManager.handle_execution: the status of the order row, then the
\* one-cancels-other logic when the row is a bracket order, then the
\* execution event (an OrderEvent without a sequence)
HandleExecution(st, o, status, env) ==
    Then(UpdateOrderStatus(st, o.orderId, status), LAMBDA s1 :
    LET order == GetOrder(s1, o.orderId) IN
    IF order.account_type = "none" THEN s1
    ELSE SaveOrderEvent(IF order.bo_profit_value # NoValue
                        THEN HandleBracketOrderOco(s1, o.orderId, o, env)
                        ELSE s1,
                        o.orderId, status, NoValue))

\* ------------------------------------------------------- order handler
\* what one call of the handler starts from: the per-call outputs cleared
BeginCall(st) ==
    [st EXCEPT !.ret = NoId, !.ok = FALSE, !.exc = FALSE, !.issued = FALSE,
               !.cancel_issued = FALSE, !.cancels = <<>>, !.fid = NoId,
               !.sizer_zero = FALSE, !.margin_fail = FALSE, !.apis = <<>>,
               !.routed = "none"]

\* "if follower_order_id:" in _handle_order_update: the watermark is written
\* with the current time
AdvanceWatermark(st) ==
    IF st.ret # NoId THEN SetWatermark(st, st.now) ELSE st

\* CopyTradingOrchestrator._handle_order_update (Task-001 main.py)
HandleOrderUpdateV1(st, o, status, env) ==
    CASE status \in NewStatuses ->
            Then(ReplicateOrderV1(st, o, status, env), AdvanceWatermark)
      [] status = "CANCELLED" -> CancelOrder(st, o, env)
      [] status \in ExecStatuses -> HandleExecution(st, o, status, env)
      [] status = "REJECTED" -> HandleExecution(st, o, status, env)
      [] OTHER -> st

\* CopyTradingSystem._handle_order_update (Task-009 main.py)
HandleOrderUpdateV2(st, o, status, env) ==
    IF status \in NewStatuses
    THEN Then(ReplicateOrderV2(st, o, env), AdvanceWatermark)
    ELSE st

\* the record of one handler call, kept in the variable last
CallRecord(pre, post, o, status, ts, env) ==
    LET pre_row == GetCopyMappingByLeader(pre, o.orderId)
        post_row == GetCopyMappingByLeader(post, o.orderId)
    IN
    [leader |-> o.orderId, status |-> status,
     pre_status |-> pre_row.status,
     pre_fid |-> pre_row.follower_order_id,
     row_unchanged |-> (post_row = pre_row),
     ret |-> post.ret, issued |-> post.issued, fid |-> post.fid,
     post_status |-> post_row.status,
     post_fid |-> post_row.follower_order_id,
     post_error |-> post_row.error_message,
     sizer_zero |-> post.sizer_zero, margin_fail |-> post.margin_fail,
     apis |-> post.apis, routed |-> post.routed,
     advanced |-> (post.wm # pre.wm), fresh |-> (ts > pre.wm),
     cancels |-> post.cancels,
     cancel_answer |-> IF post.cancels = <<>> THEN "none" ELSE env.cancel,
     pre_order |-> GetOrder(pre, o.orderId),
     post_order |-> GetOrder(post, o.orderId),
     pre_follower |-> GetOrder(pre, pre_row.follower_order_id),
     post_follower |-> GetOrder(post, pre_row.follower_order_id),
     leg_type |-> o.legType,
     follower_legs |-> GetBracketOrderLegs(pre, pre_row.follower_order_id),
     pre_legs |-> GetBracketOrderLegs(pre, o.orderId),
     post_legs |-> GetBracketOrderLegs(post, o.orderId)]

\* the statuses the stream managers forward to the order handler
ForwardedStatuses ==
    {"PENDING", "OPEN", "TRANSIT", "MODIFIED", "CANCELLED", "TRADED", "EXECUTED",
     "REJECTED", "PARTIALLY_FILLED"}

\* OrderStreamManager._handle_order_update / LiveOrderUpdateManager.
\* _handle_order_update: heartbeat, then the order handler of the generation
StreamHandleOrderUpdate(st, o, status, ts, env) ==
    Then(BeginCall([st EXCEPT !.hb = st.now]), LAMBDA s0 :
    IF status \notin ForwardedStatuses THEN s0
    ELSE
    Then(IF s0.arch = "v1" THEN HandleOrderUpdateV1(s0, o, status, env)
         ELSE HandleOrderUpdateV2(s0, o, status, env), LAMBDA s1 :
    [s1 EXCEPT !.passed = @ \cup ({o.orderId} \cap st.down),
               !.calls = Append(@, CallRecord(s0, s1, o, status, ts, env))]))

\* ---------------------------------------------------- stream coordinator
\* the leader's order list as get_order_list answers it, in id order
OrderList(list) ==
    LET Listed(l) == list[l].orderId # NoId
    IN [i \in DOMAIN SelectSeq(LeaderIdSeq, Listed) |->
            list[SelectSeq(LeaderIdSeq, Listed)[i]]]

\* "int(create_time_str) if isinstance(create_time_str, (int, float)) else 0"
OrderTs(order) ==
    IF order.createTimeType = "int" THEN order.createTime ELSE 0

\* the loop over the orders to replay: each goes through _handle_order_update
RECURSIVE ReplayOrders(_, _, _)
ReplayOrders(st, missed, envs) ==
    IF missed = <<>> THEN st
    ELSE LET o == Head(missed) IN
         Then(StreamHandleOrderUpdate(st, o, o.orderStatus, o.createTime,
                                      envs[o.orderId]), LAMBDA s1 :
         ReplayOrders(s1, Tail(missed), envs))

\* the orders OrderStreamManager._fetch_missed_orders selects for replay
MissedOrdersV1(st, list) ==
    LET last_ts == IF st.wm # 0 THEN st.wm ELSE st.now - NoWatermarkLookback
        IsMissed(order) == order.createTime # 0 /\ OrderTs(order) > last_ts
    IN SelectSeq(OrderList(list), IsMissed)

\* OrderStreamManager._fetch_missed_orders (Task-001): orders newer than the
\* watermark, or than one hour ago when there is no watermark
FetchMissedOrdersV1(st, list, list_api, envs) ==
    IF list_api = "raise" THEN st
    ELSE ReplayOrders(st, MissedOrdersV1(st, list), envs)

\* LiveOrderUpdateManager._fetch_missed_orders (Task-009): every listed order
FetchMissedOrdersV2(st, list, list_api, envs) ==
    IF list_api = "raise" THEN st
    ELSE ReplayOrders(st, OrderList(list), envs)

\* connect(); up is whether connect_to_dhan_websocket_sync succeeds
Connect(st, up, list, list_api, envs) ==
    IF up
    THEN Then([st EXCEPT !.conn = TRUE, !.attempts = 0, !.hb = st.now],
              LAMBDA s1 :
         [(IF ~st.wasdisc THEN s1
           ELSE IF st.arch = "v1"
           THEN FetchMissedOrdersV1(s1, list, list_api, envs)
           ELSE FetchMissedOrdersV2(s1, list, list_api, envs))
            EXCEPT !.wasdisc = FALSE])
    ELSE [st EXCEPT !.conn = FALSE, !.wasdisc = TRUE]

\* the delay without the cap at _max_reconnect_delay
BackoffDelay_Uncapped(attempts) == ReconnectDelay * (2 ^ (attempts - 1))

\* delay before the attempt numbered attempts
BackoffDelay(attempts) ==
    Min(ReconnectDelay * (2 ^ (attempts - 1)), MaxReconnectDelay)

\* _reconnect_with_backoff; the first fails connects fail, the next succeeds
RECURSIVE ReconnectWithBackoff(_, _, _, _, _)
ReconnectWithBackoff(st, fails, list, list_api, envs) ==
    IF ~st.running THEN st
    ELSE IF st.attempts >= MaxReconnectAttempts THEN [st EXCEPT !.running = FALSE]
    ELSE
    Then([st EXCEPT !.attempts = st.attempts + 1,
                    !.now = st.now + BackoffDelay(st.attempts + 1),
                    !.delays = Append(@, BackoffDelay(st.attempts + 1))],
         LAMBDA s1 :
    IF fails = 0 THEN Connect(s1, TRUE, list, list_api, envs)
    ELSE Then(Connect(s1, FALSE, list, list_api, envs), LAMBDA s2 :
         ReconnectWithBackoff(s2, fails - 1, list, list_api, envs)))

\* monitor_connection
MonitorConnectionBody(st, fails, list, list_api, envs) ==
    Then(IF st.conn /\ (st.now - st.hb) > HeartbeatTimeout
         THEN [st EXCEPT !.conn = FALSE] ELSE st, LAMBDA s1 :
    IF s1.running /\ ~s1.conn
    THEN Then([s1 EXCEPT !.wasdisc = TRUE], LAMBDA s2 :
         ReconnectWithBackoff(s2, fails, list, list_api, envs))
    ELSE s1)

\* ------------------------------------------------------------- inputs
\* system configurations a behaviour may run under
Configs == {[strategy |-> "capital_proportional", copy_ratio |-> <<0, 0>>]}

\* what get_fund_limits may answer for the two accounts
FundsScenarios ==
    {[leader |-> 200000, follower |-> 100000],
     [leader |-> 200000, follower |-> 0]}

\* a plain intraday limit order for two lots of the option
BasicShape ==
    [securityId |-> "OPT", quantity |-> 100, price |-> 100,
     productType |-> "INTRADAY", stopLossValue |-> 0, boStopLossValue |-> 0,
     boProfitValue |-> 0, disclosedQuantity |-> 0]

\* the orders the leader places: an option order, and an oversized market
\* option order (one that fails the margin check)
OrderShapes ==
    {BasicShape, [BasicShape EXCEPT !.quantity = 5000, !.price = 0]}

StreamShape == BasicShape

\* createTime of the order list: an epoch number or a timestamp string
CreateTimeTypes == {"int", "str"}

EventStatuses == {"PENDING", "CANCELLED"}

\* the timestamp an event carries: a PENDING event is the event of the order's
\* creation, also when it is delivered late or again; other events are new
EventTs(o, status, t) == IF status = "PENDING" THEN o.createTime ELSE t

QuietEnv ==
    [broker |-> "reject", funds |-> "ok", latency |-> 0, cancel |-> "fail"]

\* what the environment may decide during one handler call
PlaceEnvs ==
    {[QuietEnv EXCEPT !.broker = b, !.funds = f, !.latency = l] :
        b \in {"accept", "reject"}, f \in {"ok", "raise"}, l \in {0, TickSeconds}}

CancelEnvs == {[QuietEnv EXCEPT !.cancel = c] : c \in {"success", "fail"}}

EnvsFor(status) ==
    IF status \in NewStatuses THEN PlaceEnvs
    ELSE IF status = "CANCELLED" THEN CancelEnvs
    ELSE {QuietEnv}

\* ------------------------------------------------------- state <-> record
CurSt ==
    [arch |-> arch, strategy |-> strategy, copy_ratio |-> copy_ratio,
     map |-> mappings, ord |-> orders, legs |-> bracket_order_legs,
     ev |-> order_events,
     wm |-> watermark, cache |-> funds_cache,
     upd |-> funds_last_updated, now |-> now, ticks |-> ticks,
     bf |-> broker_funds, next_fid |-> next_fid, acc |-> accepted,
     conn |-> is_connected, running |-> is_running, wasdisc |-> was_disconnected,
     attempts |-> reconnect_attempts, hb |-> last_heartbeat, down |-> created_down,
     passed |-> passed, delays |-> <<>>,
     calls |-> <<>>, ret |-> NoId, ok |-> FALSE, exc |-> FALSE, issued |-> FALSE,
     cancel_issued |-> FALSE, cancels |-> <<>>, fid |-> NoId,
     sizer_zero |-> FALSE, margin_fail |-> FALSE, apis |-> <<>>,
     routed |-> "none"]

\* the handler's result becomes the next state
Commit(st, op) ==
    /\ st.ticks <= MaxTicks
    /\ st.next_fid <= MaxFollowerIds + 1
    /\ mappings' = st.map
    /\ orders' = st.ord
    /\ bracket_order_legs' = st.legs
    /\ Len(st.ev) <= MaxEvents
    /\ order_events' = st.ev
    /\ watermark' = st.wm
    /\ funds_cache' = st.cache
    /\ funds_last_updated' = st.upd
    /\ now' = st.now
    /\ ticks' = st.ticks
    /\ next_fid' = st.next_fid
    /\ accepted' = st.acc
    /\ is_connected' = st.conn
    /\ is_running' = st.running
    /\ was_disconnected' = st.wasdisc
    /\ reconnect_attempts' = st.attempts
    /\ last_heartbeat' = st.hb
    /\ passed' = st.passed
    /\ last' = [op |-> op, calls |-> st.calls, delays |-> st.delays]
    /\ UNCHANGED <<arch, strategy, copy_ratio, broker_funds>>
    /\ UNCHANGED <<breakerVars, utilVars>>

EnvStep(op) ==
    /\ last' = [op |-> op, calls |-> <<>>, delays |-> <<>>]
    /\ UNCHANGED <<lifecycleVars, threadVars>>
    /\ UNCHANGED <<breakerVars, utilVars>>

\* ------------------------------------------------------------ lifecycle
\* the thread of the stream callback and the thread that reconnects and
\* replays the order list
Threads == {"callback", "replay"}

\* CopyTradingOrchestrator.__init__ / CopyTradingSystem.__init__
LifecycleInit ==
    /\ orch_running = (sys_state = "ready")
    /\ orch_state = IF sys_state = "ready" THEN "READY" ELSE "INITIALIZING"
    /\ db_open = (sys_state = "ready")
    /\ signalled = FALSE
    /\ shutdown_steps = <<>>
    /\ exit_code = NoValue
    /\ handling = [t \in Threads |-> NoId]
    /\ replay_queue = <<>>

\* ------------------------------------------------------- circuit breaker
Callers == {1, 2}
NoBreakerStep ==
    [op |-> "init", caller |-> 0, pre_state |-> "CLOSED",
     since_failure |-> 0, admitted |-> FALSE]

\* CircuitBreaker.__init__
BreakerInit ==
    /\ cb_state = "CLOSED"
    /\ failure_count = 0
    /\ success_count = 0
    /\ last_failure_time = NoValue
    /\ cb_now = StartTime
    /\ cb_ticks = 0
    /\ pc = [t \in Callers |-> "idle"]
    /\ admitted_in = [t \in Callers |-> "none"]
    /\ fail_run = 0
    /\ probe_run = 0
    /\ cb_last = NoBreakerStep

\* ------------------------------------------------------- retry strategy
\* the failure kinds func can raise: the first is transient, the next four
\* are not, the last is not an Exception subclass
NonTransientFailures == {"validation", "insufficient_funds", "market_closed", "rejected"}
FailureKinds == {"timeout"} \cup NonTransientFailures \cup {"keyboard_interrupt"}
FuncOutcomes == {"ok"} \cup FailureKinds

\* exceptions=(Exception,), the default, and a tuple of transient errors only
ExceptionTuples == {"Exception", "TransientOnly"}

\* no call of the wrapper made yet
RetryInit ==
    /\ rt_pc = "idle"
    /\ rt_via = "decorator"
    /\ rt_max_attempts = DefaultMaxAttempts
    /\ rt_exceptions = "Exception"
    /\ rt_attempt = 0
    /\ rt_invocations = 0
    /\ rt_successes = 0
    /\ rt_sleeps = 0
    /\ rt_backoff = NoValue
    /\ rt_slept = NoValue
    /\ rt_outcome = "none"
    /\ rt_result = "none"

\* ---------------------------------------------------------- rate limiter
\* Time is counted in units of 1/(rate * SubTokens) second and tokens in
\* 1/SubTokens of a token, so that "elapsed * self.rate" is the number of
\* time units elapsed.
UnitsPerSecond == LimiterRate * SubTokens
BurstUnits == LimiterBurst * SubTokens
LimiterCallers == {1, 2, 3}
LimiterTimes == 0..MaxLimiterTicks
NoLimiterStep ==
    [op |-> "init", blocking |-> FALSE,
     requested |-> 0, pre_tokens |-> 0, elapsed |-> 0, ok |-> FALSE,
     ran |-> FALSE]

\* RateLimiter.__init__ with burst = int(rate)
LimiterInit ==
    /\ lim_tokens = BurstUnits
    /\ lim_last_update = 0
    /\ lim_now = 0
    /\ lim_pc = [t \in LimiterCallers |-> "idle"]
    /\ lim_wake = [t \in LimiterCallers |-> 0]
    /\ lim_req = [t \in LimiterCallers |-> 0]
    /\ lim_mode = [t \in LimiterCallers |-> "none"]
    /\ lim_issued = [k \in LimiterTimes |-> 0]
    /\ lim_granted = 0
    /\ lim_last = NoLimiterStep

\* ------------------------------------------------------------------ Init
Init ==
    /\ arch \in {"v1", "v2"}
    /\ \E c \in Configs : strategy = c.strategy /\ copy_ratio = c.copy_ratio
    /\ mappings = [l \in Leaders |-> NoRow]
    /\ orders = [i \in OrderIds |-> NoOrder]
    /\ bracket_order_legs = [i \in LegIds |-> NoLeg]
    /\ order_events = <<>>
    /\ watermark = 0
    /\ funds_cache = NoFunds
    /\ funds_last_updated = 0
    /\ now = StartTime
    /\ ticks = 0
    /\ sys_state = "created"
    /\ broker_funds = [leader |-> 200000, follower |-> 100000]
    /\ next_fid = 1
    /\ accepted = [l \in Leaders |-> {}]
    /\ leader_orders = [l \in Leaders |-> NoLeaderOrder]
    /\ link_up = FALSE
    /\ is_connected = FALSE
    /\ is_running = FALSE
    /\ was_disconnected = FALSE
    /\ reconnect_attempts = 0
    /\ last_heartbeat = 0
    /\ created_down = {}
    /\ passed = {}
    /\ last = [op |-> "init", calls |-> <<>>, delays |-> <<>>]
    /\ LifecycleInit
    /\ BreakerInit
    /\ RetryInit
    /\ LimiterInit

\* --------------------------------------------------------------- actions
streamVars == <<is_connected, is_running, was_disconnected, reconnect_attempts,
                last_heartbeat, passed>>
storeVars == <<mappings, orders, bracket_order_legs, order_events, watermark>>
sizerVars == <<funds_cache, funds_last_updated>>
configVars == <<arch, strategy, copy_ratio>>

\* start(): ws_manager.start() and the check of is_connected that follows it;
\* a failed connect ends the process (sys.exit(1))
Start(up) ==
    /\ sys_state = "created"
    /\ \E cur \in {[CurSt EXCEPT !.running = TRUE]} :
       \E st \in {Connect(cur, up, leader_orders, "ok",
                           [l \in Leaders |-> QuietEnv])} :
          \E res \in {IF st.conn THEN st ELSE [st EXCEPT !.running = FALSE]} :
             Commit(res, "start")
    /\ sys_state' = IF up THEN "ready" ELSE "exited"
    /\ link_up' = up
    /\ orch_running' = up
    /\ orch_state' = IF up THEN "READY" ELSE "CONNECTING"
    /\ db_open' = TRUE
    /\ exit_code' = IF up THEN NoValue ELSE 1
    /\ UNCHANGED <<leader_orders, created_down, signalled, shutdown_steps,
                   threadVars>>

\* the leader places an order at the broker
LeaderPlacesOrder(l, shape, ctt) ==
    /\ sys_state = "ready"
    /\ leader_orders[l].orderId = NoId
    /\ leader_orders' = [leader_orders EXCEPT ![l] =
            [orderId |-> l, securityId |-> shape.securityId,
             quantity |-> shape.quantity, price |-> shape.price,
             createTime |-> now, createTimeType |-> ctt, orderStatus |-> "PENDING",
             legType |-> "none", productType |-> shape.productType,
             stopLossValue |-> shape.stopLossValue,
             boStopLossValue |-> shape.boStopLossValue,
             boProfitValue |-> shape.boProfitValue,
             disclosedQuantity |-> shape.disclosedQuantity]]
    /\ created_down' = IF link_up THEN created_down ELSE created_down \cup {l}
    /\ EnvStep("leader_order")
    /\ UNCHANGED <<configVars, storeVars, sizerVars, streamVars, now, ticks,
                   sys_state, broker_funds, next_fid, accepted, link_up>>

\* the stream delivers an event of a leader order, for the first time or again
LiveEvent(l, status, env) ==
    /\ sys_state = "ready"
    /\ link_up /\ is_connected /\ is_running
    /\ leader_orders[l].orderId # NoId
    /\ \E cur \in {CurSt} :
       \E st \in {StreamHandleOrderUpdate(cur, leader_orders[l], status,
                       EventTs(leader_orders[l], status, now), env)} :
          Commit(st, "live")
    /\ UNCHANGED <<sys_state, leader_orders, link_up, created_down, lifecycleVars,
                   threadVars>>

\* time passes
Tick(seconds) ==
    /\ sys_state = "ready"
    /\ ticks < MaxTicks
    /\ now' = now + seconds
    /\ ticks' = ticks + 1
    /\ EnvStep("tick")
    /\ UNCHANGED <<configVars, storeVars, sizerVars, streamVars, sys_state,
                   broker_funds, next_fid, accepted, leader_orders, link_up,
                   created_down>>

\* the balances of the accounts change at the broker
FundsChange(f) ==
    /\ sys_state = "ready"
    /\ f # broker_funds
    /\ broker_funds' = f
    /\ EnvStep("funds")
    /\ UNCHANGED <<configVars, storeVars, sizerVars, streamVars, now, ticks,
                   sys_state, next_fid, accepted, leader_orders, link_up,
                   created_down>>

\* the socket of the current connection stops delivering
StreamDrop ==
    /\ sys_state = "ready"
    /\ link_up
    /\ link_up' = FALSE
    /\ EnvStep("drop")
    /\ UNCHANGED <<configVars, storeVars, sizerVars, streamVars, now, ticks,
                   sys_state, broker_funds, next_fid, accepted, leader_orders,
                   created_down>>

\* does monitor_connection find the stream down (flag or heartbeat timeout)?
FindsStreamDown ==
    /\ is_running
    /\ ~is_connected \/ (now - last_heartbeat) > HeartbeatTimeout

ReplayEnvs ==
    {e \in [Leaders -> PlaceEnvs \cup {QuietEnv}] :
        \A l \in Leaders : (e[l] = QuietEnv) <=> (leader_orders[l].orderId = NoId)}

FailChoices == {0, 1, MaxReconnectAttempts}

\* monitor_connection(), called periodically as the stream manager documents
MonitorConnection(fails, list_api, envs) ==
    /\ sys_state = "ready"
    /\ FindsStreamDown
    /\ \E cur \in {CurSt} :
       \E st \in {MonitorConnectionBody(cur, fails, leader_orders, list_api,
                                         envs)} :
          /\ Commit(st, IF ~st.conn THEN "reconnect_failed"
                         ELSE IF list_api = "ok" THEN "reconnect_ok"
                         ELSE "reconnect_no_list")
          /\ link_up' = (link_up \/ st.conn)
    /\ UNCHANGED <<sys_state, leader_orders, created_down, lifecycleVars,
                   threadVars>>

Next ==
    \/ \E up \in BOOLEAN : Start(up)
    \/ \E l \in Leaders, shape \in OrderShapes : LeaderPlacesOrder(l, shape, "str")
    \/ \E l \in Leaders, status \in EventStatuses :
          \E env \in EnvsFor(status) : LiveEvent(l, status, env)
    \/ Tick(TickSeconds)
    \/ \E f \in FundsScenarios : FundsChange(f)

Spec == Init /\ [][Next]_vars

NextStream ==
    \/ \E up \in BOOLEAN : Start(up)
    \/ \E l \in Leaders, ctt \in CreateTimeTypes :
          LeaderPlacesOrder(l, StreamShape, ctt)
    \/ \E l \in Leaders, env \in PlaceEnvs : LiveEvent(l, "PENDING", env)
    \/ Tick(HeartbeatTimeout + 1)
    \/ StreamDrop
    \/ \E fails \in FailChoices, list_api \in {"ok", "raise"}, envs \in ReplayEnvs :
          MonitorConnection(fails, list_api, envs)

SpecStream == Init /\ [][NextStream]_vars

\* ------------------------------------- replay and live events, by thread
\* Gap recovery runs on the thread that called monitor_connection(); the
\* socket it has just connected delivers live events on the callback of the
\* stream client.  A delivery is taken in two steps, up to the "already
\* replicated" check of replicate_order and from there to its return.

\* the ids of a list of orders
OrderIdsOf(list) == [i \in DOMAIN list |-> list[i].orderId]

\* monitor_connection() up to the order list of _fetch_missed_orders: the
\* stream is found down, the first reconnect attempt succeeds, the orders to
\* replay are selected
ReconnectBegins ==
    /\ sys_state = "ready"
    /\ FindsStreamDown
    /\ replay_queue = <<>> /\ handling["replay"] = NoId
    /\ \E cur \in {CurSt} :
       \E st \in {[cur EXCEPT !.wasdisc = TRUE, !.conn = TRUE, !.attempts = 0,
                              !.now = cur.now + BackoffDelay(1),
                              !.hb = cur.now + BackoffDelay(1),
                              !.delays = <<BackoffDelay(1)>>]} :
          /\ Commit(st, "reconnect_begins")
          /\ replay_queue' = OrderIdsOf(IF arch = "v1"
                                        THEN MissedOrdersV1(st, leader_orders)
                                        ELSE OrderList(leader_orders))
    /\ link_up' = TRUE
    /\ UNCHANGED <<sys_state, leader_orders, created_down, lifecycleVars, handling>>

\* can thread t take up a delivery for leader order l?
Delivers(t, l) ==
    /\ handling[t] = NoId
    /\ leader_orders[l].orderId # NoId
    /\ IF t = "replay" THEN replay_queue # <<>> /\ l = Head(replay_queue)
       ELSE link_up /\ is_connected /\ is_running

\* _handle_order_update for a new order, up to the "already replicated"
\* check of replicate_order; a duplicate ends the call here
CheckDelivery(t, l) ==
    /\ sys_state = "ready"
    /\ Delivers(t, l)
    /\ \E cur \in {BeginCall([CurSt EXCEPT !.hb = now])} :
       \E s0 \in {IF arch = "v1"
                  THEN SaveLeaderOrder(cur, leader_orders[l], "PENDING")
                  ELSE cur} :
       \E row \in {GetCopyMappingByLeader(s0, l)} :
          /\ Commit(IF AlreadyReplicated(row)
                    THEN AdvanceWatermark([s0 EXCEPT !.ret = row.follower_order_id])
                    ELSE s0, "check")
          /\ handling' = [handling EXCEPT ![t] = IF AlreadyReplicated(row)
                                                  THEN NoId ELSE l]
    /\ replay_queue' = IF t = "replay" THEN Tail(replay_queue) ELSE replay_queue
    /\ UNCHANGED <<sys_state, leader_orders, link_up, created_down, lifecycleVars>>

\* the rest of the call: sizing, margin check, placement, mapping, watermark
FinishDelivery(t, env) ==
    /\ sys_state = "ready"
    /\ handling[t] # NoId
    /\ \E cur \in {BeginCall(CurSt)} :
       \E st \in {IF arch = "v1"
                  THEN SizeAndPlaceV1(cur, leader_orders[handling[t]], env)
                  ELSE SizeAndPlaceV2(cur, leader_orders[handling[t]], env)} :
          Commit(AdvanceWatermark(st), "finish")
    /\ handling' = [handling EXCEPT ![t] = NoId]
    /\ UNCHANGED <<sys_state, leader_orders, link_up, created_down, lifecycleVars,
                   replay_queue>>

\* the replay loop is over: "self._was_disconnected = False"
ReplayEnds ==
    /\ sys_state = "ready"
    /\ was_disconnected /\ is_connected
    /\ replay_queue = <<>> /\ handling["replay"] = NoId
    /\ \E st \in {[CurSt EXCEPT !.wasdisc = FALSE]} : Commit(st, "replay_ends")
    /\ UNCHANGED <<sys_state, leader_orders, link_up, created_down, lifecycleVars,
                   threadVars>>

NextThreads ==
    \/ \E up \in BOOLEAN : Start(up)
    \/ \E l \in Leaders : LeaderPlacesOrder(l, StreamShape, "int")
    \/ Tick(HeartbeatTimeout + 1)
    \/ StreamDrop
    \/ ReconnectBegins
    \/ \E t \in Threads, l \in Leaders : CheckDelivery(t, l)
    \/ \E t \in Threads, env \in PlaceEnvs : FinishDelivery(t, env)
    \/ ReplayEnds

SpecThreads == Init /\ [][NextThreads]_vars

\* ------------------------------------------------- orchestrator lifecycle
\* the orchestrator as shutdown() reads and writes it
CurOrch ==
    [running |-> orch_running, state |-> orch_state, db_open |-> db_open,
     steps |-> shutdown_steps, ws_running |-> is_running, ws_conn |-> is_connected,
     raised |-> FALSE]

\* ws_manager.disconnect()
Disconnect(o) ==
    [o EXCEPT !.ws_running = FALSE, !.ws_conn = FALSE, !.steps = Append(@, "disconnect")]

\* db.close(); close is "ok" or "raise"
CloseStore(o, close) ==
    IF close = "raise" THEN [o EXCEPT !.raised = TRUE]
    ELSE [o EXCEPT !.db_open = FALSE, !.steps = Append(@, "close")]

\* the report that ends shutdown(): self.state = "STOPPED" (Task-001), the
\* log line "SYSTEM SHUTDOWN COMPLETE" (Task-009)
ReportStopped(o) == IF o.raised THEN o ELSE [o EXCEPT !.state = "STOPPED"]

\* shutdown()
Shutdown(o, arch_, close) ==
    IF arch_ = "v1" /\ o.state \in {"SHUTTING_DOWN", "STOPPED"} THEN o
    ELSE Then([o EXCEPT !.state = "SHUTTING_DOWN", !.running = FALSE], LAMBDA o1 :
         Then(Disconnect(o1), LAMBDA o2 :
         Then(CloseStore(o2, close), LAMBDA o3 :
         ReportStopped(o3))))

\* one pass of the loop of _run_event_loop: monitor_connection() when the
\* stream manager is not connected, then the sleep
EventLoopIteration(fails, list_api, envs) ==
    /\ sys_state = "ready"
    /\ orch_running
    /\ \E cur \in {CurSt} :
       \E st \in {IF ~cur.conn
                  THEN MonitorConnectionBody(cur, fails, leader_orders, list_api, envs)
                  ELSE cur} :
          /\ Commit(st, "event_loop")
          /\ link_up' = IF is_connected THEN link_up ELSE (link_up \/ st.conn)
    /\ UNCHANGED <<sys_state, leader_orders, created_down, lifecycleVars,
                   threadVars>>

\* SIGINT or SIGTERM: signal_handler calls sys.exit(0); the SystemExit it
\* raises in the main thread is not an Exception and not a
\* KeyboardInterrupt, so no handler of start() or of the loop catches it
Signal ==
    /\ sys_state = "ready"
    /\ signalled' = TRUE
    /\ exit_code' = 0
    /\ sys_state' = "exited"
    /\ last' = [op |-> "signal", calls |-> <<>>, delays |-> <<>>]
    /\ UNCHANGED <<configVars, storeVars, sizerVars, streamVars, now, ticks,
                   broker_funds, next_fid, accepted, leader_orders, link_up,
                   created_down, orch_running, orch_state, db_open, shutdown_steps,
                   threadVars>>
    /\ UNCHANGED <<breakerVars, utilVars>>

\* an exception reaches "except Exception" of start(): shutdown(), then
\* sys.exit(1)
SystemError(close) ==
    /\ sys_state = "ready"
    /\ \E o \in {Shutdown(CurOrch, arch, close)} :
          /\ orch_running' = o.running
          /\ orch_state' = o.state
          /\ db_open' = o.db_open
          /\ shutdown_steps' = o.steps
          /\ is_running' = o.ws_running
          /\ is_connected' = o.ws_conn
    /\ exit_code' = 1
    /\ sys_state' = "exited"
    /\ last' = [op |-> "system_error", calls |-> <<>>, delays |-> <<>>]
    /\ UNCHANGED <<configVars, storeVars, sizerVars, was_disconnected,
                   reconnect_attempts, last_heartbeat, passed, now, ticks,
                   broker_funds, next_fid, accepted, leader_orders, link_up,
                   created_down, signalled, threadVars>>
    /\ UNCHANGED <<breakerVars, utilVars>>

NextLifecycle ==
    \/ \E up \in BOOLEAN : Start(up)
    \/ \E l \in Leaders : LeaderPlacesOrder(l, StreamShape, "int")
    \/ \E l \in Leaders, env \in PlaceEnvs : LiveEvent(l, "PENDING", env)
    \/ Tick(HeartbeatTimeout + 1)
    \/ StreamDrop
    \/ \E fails \in FailChoices, envs \in ReplayEnvs :
          MonitorConnection(fails, "ok", envs)
    \/ \E fails \in FailChoices, envs \in ReplayEnvs :
          EventLoopIteration(fails, "ok", envs)
    \/ Signal
    \/ \E close \in {"ok", "raise"} : SystemError(close)

SpecLifecycle == Init /\ [][NextLifecycle]_vars

\* the loop of _run_event_loop keeps running
SpecLifecycleFair ==
    SpecLifecycle
    /\ WF_vars(\E fails \in FailChoices, envs \in ReplayEnvs :
                  EventLoopIteration(fails, "ok", envs))

\* ------------------------------------------- the handlers on bracket data
\* The orders and bracket_order_legs tables as a bracket-aware writer
\* (save_order with bo_profit_value, save_bracket_order_leg) leaves them:
\* leader order 1 is replicated as follower order 11, which may be a bracket
\* order with a target leg (order 12) and a stop leg (order 13).
BracketProfitValue == 10
FollowerStatuses == {"PENDING", "TRADED"}
LegStatuses == {"PENDING", "TRADED"}
StopLegTypes == {"stop_loss", "SL"}

LegTables ==
    {[i \in LegIds |-> NoLeg]} \cup
    {[i \in LegIds |->
        IF i = 1
        THEN [id |-> 1, parent_order_id |-> 11, leg_type |-> "target",
              leg_order_id |-> 12, status |-> s1]
        ELSE [id |-> 2, parent_order_id |-> 11, leg_type |-> t2,
              leg_order_id |-> 13, status |-> s2]] :
       s1 \in LegStatuses, s2 \in LegStatuses, t2 \in StopLegTypes}

InitBracket ==
    /\ arch \in {"v1", "v2"}
    /\ \E c \in Configs : strategy = c.strategy /\ copy_ratio = c.copy_ratio
    /\ mappings = [l \in Leaders |->
           IF l = 1
           THEN [status |-> "placed", follower_order_id |-> 11,
                 leader_quantity |-> 100, follower_quantity |-> 50,
                 capital_ratio |-> <<1, 2>>, error_message |-> "none"]
           ELSE NoRow]
    /\ \E fs \in FollowerStatuses, bo \in {NoValue, BracketProfitValue} :
          orders = [i \in OrderIds |->
             IF arch = "v2" THEN NoOrder
             ELSE IF i = 1
             THEN [account_type |-> "leader", status |-> "PENDING",
                   security_id |-> "OPT", quantity |-> 100,
                   bo_profit_value |-> NoValue]
             ELSE IF i = 11
             THEN [account_type |-> "follower", status |-> fs,
                   security_id |-> "OPT", quantity |-> 50,
                   bo_profit_value |-> bo]
             ELSE NoOrder]
    /\ order_events = IF arch = "v2" THEN <<>>
                      ELSE <<[order_id |-> 11, event_type |-> "PLACED",
                              sequence |-> 1]>>
    /\ bracket_order_legs \in (IF arch = "v2" THEN {[i \in LegIds |-> NoLeg]}
                                ELSE LegTables)
    /\ watermark = StartTime
    /\ funds_cache = [leader |-> 200000, follower |-> 100000]
    /\ funds_last_updated = StartTime
    /\ now = StartTime
    /\ ticks = 0
    /\ sys_state = "ready"
    /\ broker_funds = [leader |-> 200000, follower |-> 100000]
    /\ next_fid = 2
    /\ accepted = [l \in Leaders |-> IF l = 1 THEN {11} ELSE {}]
    /\ leader_orders = [l \in Leaders |->
           IF l = 1
           THEN [orderId |-> 1, securityId |-> "OPT", quantity |-> 100,
                 price |-> 100, createTime |-> StartTime,
                 createTimeType |-> "int", orderStatus |-> "PENDING",
                 legType |-> "none", productType |-> "INTRADAY",
                 stopLossValue |-> 0, boStopLossValue |-> 0,
                 boProfitValue |-> 0, disclosedQuantity |-> 0]
           ELSE NoLeaderOrder]
    /\ link_up = TRUE
    /\ is_connected = TRUE
    /\ is_running = TRUE
    /\ was_disconnected = FALSE
    /\ reconnect_attempts = 0
    /\ last_heartbeat = StartTime
    /\ created_down = {}
    /\ passed = {}
    /\ last = [op |-> "init", calls |-> <<>>, delays |-> <<>>]
    /\ LifecycleInit
    /\ BreakerInit
    /\ RetryInit
    /\ LimiterInit

\* the ids an execution event may carry: the leader order, an order the
\* store has no row for, the follower order
ExecutionEventIds == {1, 2, 11}
ExecutionLegTypes == {"none", "target", "stop_loss", "entry", "other"}
LegCancelEnvs == {[QuietEnv EXCEPT !.cancel = c] : c \in {"success", "raise"}}

\* the stream delivers an execution or rejection event; legType says which
\* leg of a bracket order it is about
ExecutionEvent(id, status, leg_type, env) ==
    /\ sys_state = "ready"
    /\ link_up /\ is_connected /\ is_running
    /\ \E cur \in {CurSt} :
       \E st \in {StreamHandleOrderUpdate(cur,
                       [NoLeaderOrder EXCEPT !.orderId = id,
                                             !.orderStatus = status,
                                             !.legType = leg_type],
                       status, now, env)} :
          Commit(st, "execution")
    /\ UNCHANGED <<sys_state, leader_orders, link_up, created_down, lifecycleVars,
                   threadVars>>

NextBracket ==
    \/ \E id \in ExecutionEventIds, status \in {"TRADED", "REJECTED"},
          leg_type \in ExecutionLegTypes, env \in LegCancelEnvs :
          ExecutionEvent(id, status, leg_type, env)
    \/ \E env \in CancelEnvs : LiveEvent(1, "CANCELLED", env)

SpecBracket == InitBracket /\ [][NextBracket]_vars

\* ------------------------------------------- the circuit breaker on its own
\* the breaker object as the methods read and write it
CurBreaker ==
    [state |-> cb_state, failure_count |-> failure_count,
     success_count |-> success_count, last_failure_time |-> last_failure_time]

\* the comparisons "count >= threshold" of _record_success / _record_failure
\* the comparison made strict
ReachedThreshold_Strict(count, threshold) == count > threshold

ReachedThreshold(count, threshold) == count >= threshold

\* CircuitBreaker._record_success
RecordSuccess(b) ==
    LET b1 == [b EXCEPT !.failure_count = 0] IN
    IF b1.state = "HALF_OPEN"
    THEN IF ReachedThreshold(b1.success_count + 1, SuccessThreshold)
         THEN [b1 EXCEPT !.state = "CLOSED", !.success_count = 0]
         ELSE [b1 EXCEPT !.success_count = @ + 1]
    ELSE b1

\* CircuitBreaker._record_failure
RecordFailure(b, time) ==
    LET b1 == [b EXCEPT !.failure_count = @ + 1, !.last_failure_time = time,
                        !.success_count = 0]
    IN IF ReachedThreshold(b1.failure_count, FailureThreshold)
       THEN [b1 EXCEPT !.state = "OPEN"] ELSE b1

\* "(time.time() - self.last_failure_time) >= self.recovery_timeout"
\* the recovery timeout taken as always elapsed
RecoveryElapsed_Always(b, time) == TRUE

RecoveryElapsed(b, time) == (time - b.last_failure_time) >= RecoveryTimeout

\* CircuitBreaker._can_attempt; yields [b, ok]
CanAttempt(b, time) ==
    IF b.state = "CLOSED" THEN [b |-> b, ok |-> TRUE]
    ELSE IF b.state = "OPEN"
    THEN IF RecoveryElapsed(b, time)
         THEN [b |-> [b EXCEPT !.state = "HALF_OPEN", !.failure_count = 0,
                               !.success_count = 0],
               ok |-> TRUE]
         ELSE [b |-> b, ok |-> FALSE]
    ELSE [b |-> b, ok |-> TRUE]

\* CircuitBreaker.reset
ResetBreaker(b) ==
    [b EXCEPT !.failure_count = 0, !.success_count = 0,
              !.last_failure_time = NoValue, !.state = "CLOSED"]

\* the breaker object written back
CommitBreaker(b) ==
    /\ cb_state' = b.state
    /\ failure_count' = b.failure_count
    /\ success_count' = b.success_count
    /\ last_failure_time' = b.last_failure_time
    /\ UNCHANGED <<pipelineVars, utilVars>>

\* wrapper, first half: the caller passes _can_attempt and enters func, or
\* gets the circuit-open exception
BreakerCall(t) ==
    /\ pc[t] = "idle"
    /\ \E r \in {CanAttempt(CurBreaker, cb_now)} :
          /\ CommitBreaker(r.b)
          /\ pc' = [pc EXCEPT ![t] = IF r.ok THEN "calling" ELSE "idle"]
          /\ admitted_in' = [admitted_in EXCEPT ![t] =
                                IF r.ok THEN r.b.state ELSE "none"]
          /\ probe_run' = IF cb_state = "OPEN" /\ r.b.state = "HALF_OPEN"
                          THEN 0 ELSE probe_run
          /\ cb_last' = [op |-> "call", caller |-> t, pre_state |-> cb_state,
                         since_failure |-> cb_now - last_failure_time,
                         admitted |-> r.ok]
    /\ UNCHANGED <<cb_now, cb_ticks, fail_run>>

BreakerOutcomes == {"success", "expected_exception", "other_exception"}

\* wrapper, second half: func returns or raises and the result is recorded
BreakerReturn(t, outcome) ==
    /\ pc[t] = "calling"
    /\ CommitBreaker(CASE outcome = "success" -> RecordSuccess(CurBreaker)
                       [] outcome = "expected_exception" ->
                             RecordFailure(CurBreaker, cb_now)
                       [] OTHER -> CurBreaker)
    /\ pc' = [pc EXCEPT ![t] = "idle"]
    /\ admitted_in' = [admitted_in EXCEPT ![t] = "none"]
    /\ fail_run' = CASE outcome = "success" -> 0
                     [] outcome = "expected_exception" ->
                           Min(fail_run + 1, FailureThreshold + 1)
                     [] OTHER -> fail_run
    /\ probe_run' = CASE outcome = "expected_exception" -> 0
                      [] outcome = "success" /\ cb_state = "HALF_OPEN"
                            /\ admitted_in[t] = "HALF_OPEN" ->
                            Min(probe_run + 1, SuccessThreshold + 1)
                      [] OTHER -> probe_run
    /\ cb_last' = [op |-> outcome, caller |-> t, pre_state |-> cb_state,
                   since_failure |-> 0, admitted |-> TRUE]
    /\ UNCHANGED <<cb_now, cb_ticks>>

\* half of the recovery timeout passes
BreakerTick ==
    /\ cb_ticks < MaxBreakerTicks
    /\ cb_now' = cb_now + (RecoveryTimeout \div 2)
    /\ cb_ticks' = cb_ticks + 1
    /\ cb_last' = [NoBreakerStep EXCEPT !.op = "tick", !.pre_state = cb_state]
    /\ UNCHANGED <<cb_state, failure_count, success_count, last_failure_time, pc,
                   admitted_in, fail_run, probe_run>>
    /\ UNCHANGED <<pipelineVars, utilVars>>

\* the operator resets the breaker by hand
BreakerReset ==
    /\ cb_state # "CLOSED"
    /\ CommitBreaker(ResetBreaker(CurBreaker))
    /\ fail_run' = 0
    /\ probe_run' = 0
    /\ cb_last' = [NoBreakerStep EXCEPT !.op = "reset", !.pre_state = cb_state]
    /\ UNCHANGED <<cb_now, cb_ticks, pc, admitted_in>>

NextBreaker ==
    \/ \E t \in Callers : BreakerCall(t)
    \/ \E t \in Callers, outcome \in BreakerOutcomes : BreakerReturn(t, outcome)
    \/ BreakerTick
    \/ BreakerReset

SpecBreaker == Init /\ [][NextBreaker]_vars

\* ------------------------------------------------ retry strategy, actions
RECURSIVE Pow(_, _)
Pow(base, n) == IF n <= 0 THEN 1 ELSE base * Pow(base, n - 1)

\* "except self.exceptions as e": does the tuple match a failure of this kind
Catches(exceptions, kind) ==
    CASE exceptions = "Exception" -> kind # "keyboard_interrupt"
      [] exceptions = "TransientOnly" -> kind = "timeout"
      [] OTHER -> FALSE

\* "if attempt == self.max_attempts" taken one attempt late
LastAttempt_Late(attempt, max_attempts) == attempt = max_attempts + 1

\* "if attempt == self.max_attempts"
LastAttempt(attempt, max_attempts) == attempt = max_attempts

\* "backoff = min(self.backoff_factor ** (attempt - 1), self.max_backoff)"
Backoff(attempt) == Min(Pow(BackoffFactor, attempt - 1), MaxBackoff)

\* random.uniform(0.75, 1.25) in percent: the two ends and the middle
JitterPcts == {JitterLow, 100, JitterHigh}

\* "jitter = backoff * random.uniform(0.75, 1.25)", in 1/100 s
Jitter(backoff, pct) == backoff * pct

\* resilient_api_call builds the wrapper: RetryStrategy(max_attempts=
\* max_retries) with the default exception tuple when max_retries > 1, the
\* bare function otherwise
ResilientExceptions(max_retries) == IF max_retries > 1 THEN "Exception" ELSE "Nothing"

RetryBuilds ==
    [via : {"decorator"}, n : 0..MaxAttemptsBound, exceptions : ExceptionTuples]
    \cup {[via |-> "resilient_api_call", n |-> n,
           exceptions |-> ResilientExceptions(n)] : n \in 0..MaxAttemptsBound}

\* the wrapper is called: "last_exception = None" and the loop is entered.
\* The bare function of resilient_api_call is one iteration that catches
\* nothing.
RetryCall(build) ==
    /\ rt_pc \in {"idle", "done"}
    /\ rt_pc' = "loop"
    /\ rt_via' = build.via
    /\ rt_max_attempts' = IF build.exceptions = "Nothing" THEN 1 ELSE build.n
    /\ rt_exceptions' = build.exceptions
    /\ rt_attempt' = 1
    /\ rt_invocations' = 0
    /\ rt_successes' = 0
    /\ rt_sleeps' = 0
    /\ rt_backoff' = NoValue
    /\ rt_slept' = NoValue
    /\ rt_outcome' = "none"
    /\ rt_result' = "none"
    /\ UNCHANGED <<pipelineVars, breakerVars, limiterVars>>

\* one iteration of "for attempt in range(1, self.max_attempts + 1)": func is
\* invoked; it returns, or raises what the tuple catches (raise on the last
\* attempt, sleep otherwise), or raises something else
RetryIteration(outcome, pct) ==
    /\ rt_pc = "loop"
    /\ rt_attempt <= rt_max_attempts
    /\ rt_invocations' = rt_invocations + 1
    /\ rt_outcome' = outcome
    /\ IF outcome = "ok"
       THEN /\ rt_successes' = rt_successes + 1
            /\ rt_result' = "returned"
            /\ rt_pc' = "done"
            /\ UNCHANGED <<rt_attempt, rt_sleeps, rt_backoff, rt_slept>>
       ELSE IF ~Catches(rt_exceptions, outcome)
                \/ LastAttempt(rt_attempt, rt_max_attempts)
       THEN /\ rt_result' = "raised"
            /\ rt_pc' = "done"
            /\ UNCHANGED <<rt_attempt, rt_successes, rt_sleeps, rt_backoff, rt_slept>>
       ELSE /\ rt_backoff' = Backoff(rt_attempt)
            /\ rt_slept' = Jitter(Backoff(rt_attempt), pct)
            /\ rt_sleeps' = rt_sleeps + 1
            /\ rt_attempt' = rt_attempt + 1
            /\ UNCHANGED <<rt_pc, rt_result, rt_successes>>
    /\ UNCHANGED <<rt_via, rt_max_attempts, rt_exceptions>>
    /\ UNCHANGED <<pipelineVars, breakerVars, limiterVars>>

\* the loop ends without a return or a raise: "raise last_exception", which
\* is a TypeError when last_exception is still None
RetryLoopEnds ==
    /\ rt_pc = "loop"
    /\ rt_attempt > rt_max_attempts
    /\ rt_pc' = "done"
    /\ rt_result' = IF rt_outcome = "none" THEN "type_error" ELSE "raised"
    /\ UNCHANGED <<rt_via, rt_max_attempts, rt_exceptions, rt_attempt,
                   rt_invocations, rt_successes, rt_sleeps, rt_backoff, rt_slept,
                   rt_outcome>>
    /\ UNCHANGED <<pipelineVars, breakerVars, limiterVars>>

NextRetry ==
    \/ \E build \in RetryBuilds : RetryCall(build)
    \/ \E outcome \in FuncOutcomes, pct \in JitterPcts : RetryIteration(outcome, pct)
    \/ RetryLoopEnds

SpecRetry == Init /\ [][NextRetry]_vars

\* ------------------------------------------------- rate limiter, actions
\* the limiter object: [tokens, last_update]
CurLimiter == [tokens |-> lim_tokens, last_update |-> lim_last_update]

\* RateLimiter._refill_tokens without the cap at burst
RefillTokens_Uncapped(b, time) ==
    [tokens |-> b.tokens + (time - b.last_update), last_update |-> time]

\* RateLimiter._refill_tokens
RefillTokens(b, time) ==
    [tokens |-> Min(BurstUnits, b.tokens + (time - b.last_update)), last_update |-> time]

\* "if self.tokens >= tokens"
Available(b, tokens) == b.tokens >= tokens

\* one "with self.lock" section of acquire: refill, then take the tokens if
\* there are enough; yields [b, ok]
TryTake(b, tokens, time) ==
    Then(RefillTokens(b, time), LAMBDA b1 :
    IF Available(b1, tokens)
    THEN [b |-> [b1 EXCEPT !.tokens = @ - tokens], ok |-> TRUE]
    ELSE [b |-> b1, ok |-> FALSE])

\* "wait_time = tokens_needed / self.rate", in time units
WaitTime(b, tokens) == tokens - b.tokens

\* the limiter object written back
CommitLimiter(r, tokens) ==
    /\ lim_tokens' = r.b.tokens
    /\ lim_last_update' = r.b.last_update
    /\ lim_granted' = IF r.ok THEN lim_granted + tokens ELSE lim_granted

\* func of the wrapper starts now
IssueCommand(ran) ==
    lim_issued' = IF ran THEN [lim_issued EXCEPT ![lim_now] = @ + 1] ELSE lim_issued

\* the calls made: the decorated function (acquire(), then func), and
\* acquire(tokens, blocking=False) on its own
LimiterCalls ==
    {[mode |-> "wrapper", tokens |-> 1, blocking |-> TRUE]}
    \cup [mode : {"acquire"}, tokens : 1..LimiterBurst, blocking : {FALSE}]

\* acquire up to the first return or the sleep; in the wrapper func follows
\* the return of acquire
LimiterAcquire(t, call) ==
    /\ lim_pc[t] = "idle"
    /\ \E r \in {TryTake(CurLimiter, call.tokens * SubTokens, lim_now)} :
          /\ CommitLimiter(r, call.tokens * SubTokens)
          /\ IF r.ok \/ ~call.blocking
             THEN /\ IssueCommand(call.mode = "wrapper")
                  /\ UNCHANGED <<lim_pc, lim_wake, lim_req, lim_mode>>
             ELSE /\ lim_pc' = [lim_pc EXCEPT ![t] = "sleeping"]
                  /\ lim_wake' = [lim_wake EXCEPT ![t] =
                                     lim_now + WaitTime(r.b, call.tokens * SubTokens)]
                  /\ lim_req' = [lim_req EXCEPT ![t] = call.tokens * SubTokens]
                  /\ lim_mode' = [lim_mode EXCEPT ![t] = call.mode]
                  /\ UNCHANGED lim_issued
          /\ lim_last' = [op |-> "acquire", blocking |-> call.blocking,
                          requested |-> call.tokens * SubTokens,
                          pre_tokens |-> lim_tokens,
                          elapsed |-> lim_now - lim_last_update, ok |-> r.ok,
                          ran |-> (call.mode = "wrapper" /\ r.ok)]
    /\ UNCHANGED lim_now
    /\ UNCHANGED <<pipelineVars, breakerVars, retryVars>>

\* the sleep of a blocked caller is over: "Try again after waiting", and in
\* the wrapper func follows whatever acquire returned
LimiterWake(t) ==
    /\ lim_pc[t] = "sleeping"
    /\ lim_now >= lim_wake[t]
    /\ \E r \in {TryTake(CurLimiter, lim_req[t], lim_now)} :
          /\ CommitLimiter(r, lim_req[t])
          /\ IssueCommand(lim_mode[t] = "wrapper")
          /\ lim_last' = [op |-> "wake", blocking |-> TRUE, requested |-> lim_req[t],
                          pre_tokens |-> lim_tokens,
                          elapsed |-> lim_now - lim_last_update, ok |-> r.ok,
                          ran |-> (lim_mode[t] = "wrapper")]
    /\ lim_pc' = [lim_pc EXCEPT ![t] = "idle"]
    /\ lim_wake' = [lim_wake EXCEPT ![t] = 0]
    /\ lim_req' = [lim_req EXCEPT ![t] = 0]
    /\ lim_mode' = [lim_mode EXCEPT ![t] = "none"]
    /\ UNCHANGED lim_now
    /\ UNCHANGED <<pipelineVars, breakerVars, retryVars>>

\* one time unit passes
LimiterTick ==
    /\ lim_now < MaxLimiterTicks
    /\ lim_now' = lim_now + 1
    /\ lim_last' = [NoLimiterStep EXCEPT !.op = "tick"]
    /\ UNCHANGED <<lim_tokens, lim_last_update, lim_pc, lim_wake, lim_req, lim_mode,
                   lim_issued, lim_granted>>
    /\ UNCHANGED <<pipelineVars, breakerVars, retryVars>>

NextLimiter ==
    \/ \E t \in LimiterCallers, call \in LimiterCalls : LimiterAcquire(t, call)
    \/ \E t \in LimiterCallers : LimiterWake(t)
    \/ LimiterTick

SpecLimiter == Init /\ [][NextLimiter]_vars

\* ------------------------------------------------- the store on its own
\* what a caller of DatabaseManager may write: any status, with a follower
\* order id or without one, a placed mapping always with one
MappingStatuses == {"pending", "placed", "failed", "cancelled"}
StoreWrites ==
    {w \in [status : MappingStatuses, follower_order_id : FollowerIds \cup {NoId}] :
        w.status = "placed" => w.follower_order_id # NoId}
StoreRow(w) ==
    [status |-> w.status, follower_order_id |-> w.follower_order_id,
     leader_quantity |-> 100, follower_quantity |-> 50, capital_ratio |-> <<1, 2>>,
     error_message |-> "none"]

nonStoreVars == <<configVars, orders, bracket_order_legs, order_events, watermark,
                  sizerVars, streamVars, now, ticks,
                  sys_state, broker_funds, next_fid, accepted, leader_orders,
                  link_up, created_down>>

\* a call of DatabaseManager.save_copy_mapping
StoreSaveCopyMapping(l, row) ==
    /\ mappings' = SaveCopyMapping(CurSt, l, row).map
    /\ EnvStep("save_copy_mapping")
    /\ UNCHANGED nonStoreVars

\* a call of DatabaseManager.update_copy_mapping_status
StoreUpdateCopyMappingStatus(l, status, follower_order_id, error_message) ==
    /\ mappings' = UpdateCopyMappingStatus(CurSt, l, status, follower_order_id,
                                           error_message).map
    /\ EnvStep("update_copy_mapping_status")
    /\ UNCHANGED nonStoreVars

NextStore ==
    \/ \E l \in Leaders, w \in StoreWrites : StoreSaveCopyMapping(l, StoreRow(w))
    \/ \E l \in Leaders, w \in StoreWrites, msg \in {"none", "failed_to_place"} :
          StoreUpdateCopyMappingStatus(l, w.status, w.follower_order_id, msg)

SpecStore == Init /\ [][NextStore]_vars

\* ------------------------------------------------------ the event log
\* a call of DatabaseManager.save_order_event with an explicit sequence
EventSequences == {1, 2}

AppendEvent(order_id, event_type, sequence) ==
    /\ sys_state = "ready"
    /\ \E st \in {SaveOrderEvent(CurSt, order_id, event_type, sequence)} :
          Commit(st, "save_order_event")
    /\ UNCHANGED <<sys_state, leader_orders, link_up, created_down, lifecycleVars,
                   threadVars>>

NextEvents ==
    \/ \E id \in ExecutionEventIds, event_type \in {"PLACED", "TRADED"},
          sequence \in EventSequences : AppendEvent(id, event_type, sequence)
    \/ \E id \in ExecutionEventIds, status \in {"TRADED", "REJECTED"} :
          ExecutionEvent(id, status, "none", QuietEnv)

SpecEvents == InitBracket /\ [][NextEvents]_vars

\* ------------------------------------------------ product types
\* the stop-loss and target values a cover or bracket order may carry (0 =
\* the field is absent), and the disclosed quantities of a two-lot order
StopLossValues == {0, 5}
ProfitValues == {0, BracketProfitValue}
DisclosedQuantities == {0, 1, 50}

\* the limit buy of the integration test: quantity 100 at price 1500
LimitBuyPrice == 1500
LimitBuyShape == [BasicShape EXCEPT !.price = LimitBuyPrice]

\* leader orders by product type
ProductShapes ==
    {[BasicShape EXCEPT !.disclosedQuantity = d] : d \in DisclosedQuantities}
    \cup {LimitBuyShape}
    \cup {[BasicShape EXCEPT !.productType = "CO", !.stopLossValue = sl] :
             sl \in StopLossValues}
    \cup {[BasicShape EXCEPT !.productType = "BO", !.boStopLossValue = sl,
                             !.boProfitValue = pv] :
             sl \in StopLossValues, pv \in ProfitValues}

NextProducts ==
    \/ \E up \in BOOLEAN : Start(up)
    \/ \E l \in Leaders, shape \in ProductShapes : LeaderPlacesOrder(l, shape, "int")
    \/ \E l \in Leaders, env \in PlaceEnvs : LiveEvent(l, "PENDING", env)
    \/ Tick(TickSeconds)

SpecProducts == Init /\ [][NextProducts]_vars

\* ------------------------------------------------------------ the sizer
\* PositionSizer.calculate_quantity called on its own, over configurations,
\* balances, instruments, leader quantities and premiums (0 = no premium)
SizerStrategies == {"capital_proportional", "fixed_ratio", "risk_based"}
SizerRatios == {<<0, 0>>, <<1, 2>>}
SizerFunds ==
    {[leader |-> 200000, follower |-> f] : f \in {0, 20000, 100000}}
SizerQuantities == {10, 100, 400}
SizerSecurities == {"OPT", "EQ", "UNKNOWN"}
SizerPremiums == {0, 30, 100}

InitSizer ==
    /\ arch \in {"v1", "v2"}
    /\ strategy \in SizerStrategies
    /\ copy_ratio \in SizerRatios
    /\ mappings = [l \in Leaders |-> NoRow]
    /\ orders = [i \in OrderIds |-> NoOrder]
    /\ bracket_order_legs = [i \in LegIds |-> NoLeg]
    /\ order_events = <<>>
    /\ watermark = 0
    /\ funds_cache = NoFunds
    /\ funds_last_updated = 0
    /\ now = StartTime
    /\ ticks = 0
    /\ sys_state = "ready"
    /\ broker_funds \in SizerFunds
    /\ next_fid = 1
    /\ accepted = [l \in Leaders |-> {}]
    /\ leader_orders = [l \in Leaders |-> NoLeaderOrder]
    /\ link_up = TRUE
    /\ is_connected = TRUE
    /\ is_running = TRUE
    /\ was_disconnected = FALSE
    /\ reconnect_attempts = 0
    /\ last_heartbeat = StartTime
    /\ created_down = {}
    /\ passed = {}
    /\ last = [op |-> "init", calls |-> <<>>, delays |-> <<>>]
    /\ LifecycleInit
    /\ BreakerInit
    /\ RetryInit
    /\ LimiterInit

\* the record of one call of calculate_quantity: its arguments, the balances
\* it worked on and the quantity it returned (raised = it returned nothing)
SizingRecord(post, leader_quantity, security_id, premium, qty) ==
    [status |-> "sizing", leader_quantity |-> leader_quantity,
     security_id |-> security_id, premium |-> premium,
     funds |-> post.cache, raised |-> post.exc, qty |-> qty]

\* one call of PositionSizer.calculate_quantity
CalculateQuantityCall(leader_quantity, security_id, premium, api) ==
    /\ sys_state = "ready"
    /\ \E cur \in {BeginCall(CurSt)} :
       \E c \in {CalculateQuantity(cur, api, leader_quantity, security_id,
                                    premium)} :
          Commit([c.st EXCEPT !.calls = <<SizingRecord(c.st, leader_quantity,
                                            security_id, premium, c.qty)>>],
                 "calculate_quantity")
    /\ UNCHANGED <<sys_state, leader_orders, link_up, created_down, lifecycleVars,
                   threadVars>>

NextSizer ==
    \/ \E q \in SizerQuantities, sec \in SizerSecurities, premium \in SizerPremiums,
          api \in {"ok", "raise"} : CalculateQuantityCall(q, sec, premium, api)
    \/ Tick(TickSeconds)
    \/ \E f \in SizerFunds : FundsChange(f)

SpecSizer == InitSizer /\ [][NextSizer]_vars

TypeOK ==
    /\ watermark \in Nat
    /\ next_fid \in 1..(MaxFollowerIds + 1)
    /\ ticks \in 0..MaxTicks
    /\ cb_ticks \in 0..MaxBreakerTicks
    /\ failure_count \in Nat /\ success_count \in 0..SuccessThreshold

\* ---------------------------------------------------------------- claims
\* the handler calls of the last step, and those for a new-order event
Calls == {last.calls[i] : i \in DOMAIN last.calls}
NewOrderCalls == {c \in Calls : c.status \in NewStatuses}

\* C1: whatever new-order events arrive for one leader order id, duplicates
\* included, the broker accepts at most one follower placement for it.
C1_AtMostOnePlacement ==
    \A l \in Leaders : Cardinality(accepted[l]) <= 1

\* C2: when the broker has accepted a follower placement during a call of
\* replicate_order, then at the return of that call the mapping of the leader
\* order exists, has status placed and holds the accepted follower order id.
C2_AcceptedPlacementIsMapped ==
    \A c \in NewOrderCalls :
        c.fid # NoId => c.post_status = "placed" /\ c.post_fid = c.fid

\* C3: a new-order event for a leader order whose mapping is cancelled issues
\* no placement and leaves the mapping cancelled.
C3_NoPlacementAfterCancel ==
    \A c \in NewOrderCalls :
        c.pre_status = "cancelled" => ~c.issued /\ c.post_status = "cancelled"

\* C4: when the mapping of the leader order is placed, replicate_order returns
\* the stored follower order id, issues no broker command and leaves the row
\* as it was.
C4_PlacedIsIdempotent ==
    \A c \in NewOrderCalls :
        c.pre_status = "placed" =>
            c.ret = c.pre_fid /\ ~c.issued /\ c.row_unchanged

C4_Witness ==
    \E c \in NewOrderCalls :
        c.pre_status = "placed" /\ c.pre_fid # NoId /\ c.ret = c.pre_fid

\* C5: a failed mapping is terminal: a later new-order event for the same
\* leader order issues no placement.
C5_FailedIsTerminal ==
    \A c \in NewOrderCalls : c.pre_status = "failed" => ~c.issued

\* C7: every placed mapping holds a follower order id, and that id is in no
\* other row of the map.
C7_PlacedFollowerIdUnique ==
    \A l \in Leaders :
        mappings[l].status = "placed" =>
            /\ mappings[l].follower_order_id # NoId
            /\ \A m \in Leaders \ {l} :
                  mappings[m].follower_order_id # mappings[l].follower_order_id

C7_Witness ==
    \E l \in Leaders, m \in Leaders :
        /\ l # m
        /\ mappings[l].status = "placed" /\ mappings[m].status = "placed"
        /\ mappings[l].follower_order_id \in accepted[l]
        /\ mappings[m].follower_order_id \in accepted[m]

\* C8: when the sizer yields quantity zero or the margin validation fails,
\* replicate_order issues no placement, leaves a failed mapping with the
\* reason recorded, and returns no follower order id.
C8_SizingFailureRecorded ==
    \A c \in NewOrderCalls :
        (c.sizer_zero \/ c.margin_fail) =>
            /\ ~c.issued
            /\ c.post_status = "failed"
            /\ c.post_error # "none"
            /\ c.ret = NoId

C8_Witness ==
    /\ \E c \in NewOrderCalls : c.sizer_zero /\ c.post_status = "failed"
    /\ \E l \in Leaders : mappings[l].error_message = "insufficient_margin"

\* C10: the watermark advances only in a handler call in which the replicator
\* returned a follower order id, and only for an event whose timestamp is
\* later than the watermark before the call.
C10_WatermarkAdvance ==
    \A c \in Calls : c.advanced => c.ret # NoId /\ c.fresh

\* C6: no write through save_copy_mapping or update_copy_mapping_status
\* changes or clears the follower order id of a placed mapping, or moves a
\* placed or cancelled mapping back to pending.
C6_PlacedMappingImmutable ==
    [][\A l \in Leaders :
          /\ mappings[l].status = "placed" =>
                mappings'[l].follower_order_id = mappings[l].follower_order_id
          /\ mappings[l].status \in {"placed", "cancelled"} =>
                mappings'[l].status # "pending"]_vars

\* C9: after a successful reconnect (one in which the leader's order list
\* could be fetched), every leader order created while the stream was down
\* has been passed to the order handler.
C9_MissedOrdersReplayed ==
    last.op = "reconnect_ok" => created_down \subseteq passed

\* C11: when a new-order event ends in a failed mapping because the margin
\* check fails, no follower command is issued and the watermark is advanced
\* for that event.
C11_WatermarkOnMarginFailure ==
    \A c \in NewOrderCalls : c.margin_fail => ~c.issued /\ c.advanced

\* C12: a successful reconnect after a disconnect replays through the order
\* handler exactly the orders of the leader's order list whose creation time
\* is strictly greater than the watermark stored before the reconnect, and
\* none whose creation time is at or below it.
C12_ReplayBoundedByWatermark ==
    [][last'.op = "reconnect_ok" =>
          {last'.calls[i].leader : i \in DOMAIN last'.calls} =
              {l \in Leaders : /\ leader_orders[l].orderId # NoId
                               /\ leader_orders[l].createTime > watermark}]_vars

\* the handler calls of the last step for an execution event that reports the
\* target leg or the stop leg of a follower bracket order
LegExecutionCalls ==
    {c \in Calls : /\ c.status \in ExecStatuses
                   /\ c.leg_type \in {"target", "stop_loss"}
                   /\ c.pre_order.account_type = "follower"
                   /\ c.pre_order.bo_profit_value # NoValue}

C14_RejectedRecordedNoCommand ==
    \A c \in Calls :
        c.status = "REJECTED" =>
            /\ c.post_order.status = "REJECTED"
            /\ ~c.issued
            /\ c.cancels = <<>>

\* the handler calls of the last step for a cancellation of a leader order
\* whose follower order is placed and not terminal
CancelOfLiveFollowerCalls ==
    {c \in Calls : /\ c.status = "CANCELLED"
                   /\ c.pre_status = "placed" /\ c.pre_fid # NoId
                   /\ c.pre_follower.status \notin TerminalStatuses}

\* C15: when the leader cancels an order whose follower order is placed and
\* not terminal, exactly one cancel command is issued for the follower order;
\* the mapping and the follower order become cancelled exactly when the
\* broker reports the cancel as successful, and otherwise both stay as they
\* were.
C15_CancelPropagated ==
    \A c \in CancelOfLiveFollowerCalls :
        /\ Len(SelectSeq(c.cancels, LAMBDA id : id = c.pre_fid)) = 1
        /\ IF c.cancel_answer = "success"
           THEN c.post_status = "cancelled" /\ c.post_follower.status = "CANCELLED"
           ELSE c.row_unchanged /\ c.post_follower = c.pre_follower

\* C16: a cancellation event for a leader order whose follower order is
\* already terminal (executed, cancelled or rejected) issues no broker
\* command and leaves the mapping as it was, so the same cancellation
\* delivered twice leaves the mapping as one delivery does.
C16_CancelOfTerminalIsNoOp ==
    \A c \in Calls :
        (/\ c.status = "CANCELLED"
         /\ c.pre_fid # NoId
         /\ c.pre_follower.status \in TerminalStatuses) =>
            ~c.issued /\ c.cancels = <<>> /\ c.row_unchanged

C16_Witness ==
    \E c \in Calls :
        /\ c.status = "CANCELLED"
        /\ c.pre_status = "cancelled" /\ c.pre_fid # NoId
        /\ c.pre_follower.status = "CANCELLED"
        /\ c.post_status = "cancelled" /\ c.cancels = <<>>

\* the breaker steps that record the outcome of a call
RecordSteps == {"success", "expected_exception"}

\* C17: starting closed, the breaker moves to open exactly when
\* failure_threshold failures have been recorded with no success in between;
\* a success recorded in the closed state sets the failure count to zero.
C17_OpensAtThreshold ==
    (cb_last.op \in RecordSteps /\ cb_last.pre_state = "CLOSED") =>
        /\ (cb_state = "OPEN") <=>
              (cb_last.op = "expected_exception" /\ fail_run = FailureThreshold)
        /\ cb_last.op = "success" => failure_count = 0 /\ cb_state = "CLOSED"

C17_Witness ==
    /\ cb_last.op = "expected_exception" /\ cb_last.pre_state = "CLOSED"
    /\ cb_state = "OPEN" /\ fail_run = FailureThreshold

\* C18: while the breaker is open and less than recovery_timeout has elapsed
\* since the last recorded failure, a call fails with the circuit-open error
\* without entering the wrapped function, and the state stays open.
C18_OpenFailsFast ==
    (/\ cb_last.op = "call" /\ cb_last.pre_state = "OPEN"
     /\ cb_last.since_failure < RecoveryTimeout) =>
        /\ ~cb_last.admitted
        /\ pc[cb_last.caller] = "idle"
        /\ cb_state = "OPEN"

C18_Witness ==
    /\ cb_last.op = "call" /\ cb_last.pre_state = "OPEN"
    /\ cb_last.since_failure < RecoveryTimeout
    /\ ~cb_last.admitted /\ cb_state = "OPEN"
    /\ cb_now > last_failure_time

\* the callers inside the wrapped function that were admitted half-open
ProbesInFlight ==
    {t \in Callers : pc[t] = "calling" /\ admitted_in[t] = "HALF_OPEN"}

\* C19: after recovery_timeout the breaker goes half-open and admits one
\* probe call; while that probe is in flight no second call is admitted,
\* however many callers there are.
C19_OneProbeInFlight ==
    Cardinality(ProbesInFlight) <= 1

\* C20: in the half-open state the breaker closes exactly when
\* success_threshold probe calls have succeeded with no failure in between
\* (a manual reset aside), and on closing the failure count and the success
\* count are zero.
C20_ClosesAfterProbeSuccesses ==
    (cb_last.op \in RecordSteps /\ cb_last.pre_state = "HALF_OPEN") =>
        /\ (cb_state = "CLOSED") <=>
              (cb_last.op = "success" /\ probe_run = SuccessThreshold)
        /\ cb_state = "CLOSED" => failure_count = 0 /\ success_count = 0

\* C21: a function wrapped by RetryStrategy(max_attempts=N) is invoked at
\* most N times per call; the wrapper returns the first successful result
\* with no further invocation, and when all N invocations raise an exception
\* the strategy retries, the last one is raised after exactly N invocations.
C21_AtMostNInvocations ==
    rt_exceptions # "Nothing" =>
        /\ rt_invocations <= rt_max_attempts
        /\ rt_successes <= 1
        /\ rt_successes = 1 => rt_result = "returned" /\ rt_outcome = "ok" /\ rt_pc = "done"
        /\ (rt_result = "raised" /\ Catches(rt_exceptions, rt_outcome)) =>
              rt_invocations = rt_max_attempts
        /\ (rt_invocations = rt_max_attempts /\ rt_outcome \in FailureKinds) =>
              rt_result = "raised" /\ rt_pc = "done"

C21_Witness ==
    /\ rt_exceptions = "Exception" /\ rt_max_attempts = DefaultMaxAttempts
    /\ rt_result = "raised" /\ rt_outcome = "timeout"
    /\ rt_invocations = DefaultMaxAttempts /\ rt_sleeps = DefaultMaxAttempts - 1

\* C22: a failure that is not transient (validation, insufficient funds,
\* market closed, rejected) surfaces to the caller at once: the invocation of
\* the command that failed so is the last one of the call, which ends with
\* that failure, and when it was the first invocation nothing was slept.
C22_NonTransientNotRetried ==
    rt_outcome \in NonTransientFailures =>
        /\ rt_result = "raised" /\ rt_pc = "done"
        /\ rt_invocations = 1 => rt_sleeps = 0

\* C23: the delay slept before retry k is base * 2^(k-1), base one second,
\* with a jitter of +-25%, capped at max_backoff, and the delay actually
\* slept never exceeds max_backoff.
C23_SleepWithinMaxBackoff ==
    rt_sleeps > 0 =>
        /\ rt_slept >= JitterLow * Min(Pow(2, rt_sleeps - 1), MaxBackoff)
        /\ rt_slept <= JitterHigh * Min(Pow(2, rt_sleeps - 1), MaxBackoff)
        /\ rt_slept <= 100 * MaxBackoff

\* the commands started in the n time units from time unit from on
RECURSIVE IssuedIn(_, _)
IssuedIn(from, n) ==
    IF n = 0 \/ from \notin LimiterTimes THEN 0
    ELSE lim_issued[from] + IssuedIn(from + 1, n - 1)

\* C24: in every one-second window at most R + B commands are issued through
\* the rate limiter, whatever the number of concurrent callers, and a command
\* runs only after acquire() has taken a token for it.
C24_WindowBound ==
    /\ \A w \in LimiterTimes : IssuedIn(w, UnitsPerSecond) <= LimiterRate + LimiterBurst
    /\ lim_last.ran => lim_last.ok

\* C25: the token count stays within [0, burst]; a non-blocking acquire
\* succeeds exactly when the refilled bucket holds the tokens asked for; with
\* no time elapsed since the bucket was full the tokens left are burst less
\* the tokens taken, so burst single-token acquires succeed and the next one
\* fails; and tokens come back at rate tokens per second.
C25_TokenBucket ==
    /\ 0 <= lim_tokens /\ lim_tokens <= BurstUnits
    /\ (lim_last.op = "acquire" /\ ~lim_last.blocking) =>
          (lim_last.ok <=>
              Min(BurstUnits, lim_last.pre_tokens + lim_last.elapsed) >= lim_last.requested)
    /\ lim_now = 0 => lim_tokens = BurstUnits - lim_granted
    /\ lim_granted + lim_tokens <= BurstUnits + lim_last_update

C25_Witness ==
    /\ lim_now = 0 /\ lim_granted = BurstUnits
    /\ lim_last.op = "acquire" /\ ~lim_last.blocking
    /\ lim_last.requested = SubTokens /\ ~lim_last.ok

\* C26: a run of consecutive failed reconnect attempts makes at most
\* max_reconnect_attempts connect calls, the k-th after a delay of
\* min(reconnect_delay * 2^(k-1), max_reconnect_delay); after the last
\* failure the stream manager has stopped and no step makes a further
\* attempt; a successful connect resets the attempt count to zero.
C26_ReconnectBounded ==
    /\ [](/\ Len(last.delays) <= MaxReconnectAttempts
          /\ \A k \in DOMAIN last.delays :
                last.delays[k] = Min(ReconnectDelay * (2 ^ (k - 1)), MaxReconnectDelay)
          /\ (last.delays # <<>> /\ ~is_connected) =>
                (~is_running /\ Len(last.delays) = MaxReconnectAttempts)
          /\ (last.delays # <<>> /\ is_connected) => reconnect_attempts = 0)
    /\ [][~is_running => last'.delays = <<>>]_vars

C26_Witness ==
    /\ last.op = "event_loop" /\ last.delays = <<>>
    /\ ~is_running /\ ~is_connected
    /\ reconnect_attempts = MaxReconnectAttempts

\* the stream manager gave up while the orchestrator is in its event loop
Exhausted ==
    sys_state = "ready" /\ ~is_running /\ reconnect_attempts >= MaxReconnectAttempts

\* C27: when the reconnect attempts are exhausted the orchestrator
\* eventually leaves its event loop and the process ends with exit code 2
\* (unless a signal or an error ends the process first).
C27_ExhaustionExitsWithCode2 ==
    Exhausted ~> (exit_code = 2 \/ last.op \in {"signal", "system_error"})

\* the stream is marked connected and silent for longer than the timeout
HeartbeatStale ==
    sys_state = "ready" /\ is_connected /\ (now - last_heartbeat) > HeartbeatTimeout

\* C28: when the stream is marked connected and no message has arrived for
\* longer than heartbeat_timeout, the health check of the orchestrator's loop
\* eventually marks the stream disconnected and starts a reconnect (unless a
\* message arrives or the process ends first).
C28_StaleStreamReconnected ==
    HeartbeatStale ~>
        \/ ~is_connected
        \/ last.op \in {"reconnect_ok", "reconnect_failed", "reconnect_no_list"}
        \/ ~HeartbeatStale

\* C29: a process that ends after an interrupt or terminate signal has run
\* the shutdown sequence, stream disconnected and then store closed, and the
\* stopped state is reported only after every shutdown step has completed.
C29_ShutdownOnSignal ==
    /\ (signalled /\ sys_state = "exited") =>
          /\ shutdown_steps = <<"disconnect", "close">>
          /\ ~is_connected /\ ~db_open
    /\ orch_state = "STOPPED" =>
          shutdown_steps = <<"disconnect", "close">> /\ ~is_connected /\ ~db_open

\* the threads inside replicate_order, past the check and before the write
InFlight == {t \in Threads : handling[t] # NoId}

\* C30: at most one event is being processed by the replicator at any time:
\* an order replayed by gap recovery and a live event are never handled
\* concurrently, so two deliveries for the same leader id are never both past
\* the idempotency check before either one has written the mapping.
C30_OneEventInFlight ==
    /\ Cardinality(InFlight) <= 1
    /\ \A t1, t2 \in InFlight : handling[t1] = handling[t2] => t1 = t2

\* the placement API a product type is routed to
ApiOf(product_type) ==
    CASE product_type = "CO" -> "place_cover_order"
      [] product_type = "BO" -> "place_bracket_order"
      [] OTHER -> "place_order"

\* does the leader order lack a parameter its product type requires?
MissingRequired(o) ==
    \/ o.productType = "CO" /\ o.stopLossValue = 0
    \/ o.productType = "BO" /\ (o.boStopLossValue = 0 \/ o.boProfitValue = 0)

\* C31: a call of OrderReplicator.replicate_order issues at most one placement
\* call, on the API of the order's product type (cover -> place_cover_order,
\* bracket -> place_bracket_order, anything else -> place_order); a cover
\* order is placed only with a stop-loss value and a bracket order only with
\* a stop-loss and a profit target; an order missing such a parameter reaches
\* no broker call, and when it gets to the placement step its mapping ends
\* failed with no follower id.
C31_PlacementByProductType ==
    \A c \in NewOrderCalls :
        arch = "v2" =>
            LET o == leader_orders[c.leader] IN
            /\ Len(c.apis) <= 1
            /\ \A i \in DOMAIN c.apis : c.apis[i].api = ApiOf(o.productType)
            /\ c.issued <=> c.apis # <<>>
            /\ MissingRequired(o) =>
                  /\ c.apis = <<>> /\ c.fid = NoId /\ c.ret = NoId
                  /\ c.routed # "none" =>
                        c.post_status = "failed" /\ c.post_fid = NoId

C31_Witness ==
    \E c \in NewOrderCalls :
        /\ arch = "v2" /\ c.routed = "BO"
        /\ leader_orders[c.leader].boStopLossValue # 0
        /\ leader_orders[c.leader].boProfitValue = 0
        /\ c.apis = <<>> /\ c.post_status = "failed"

\* the calls of the last step that replicate the limit buy of quantity 100 at
\* price 1500 with leader funds 200,000, follower funds 100,000 and the
\* capital-proportional strategy, and got through the sizer
LimitBuyCalls ==
    {c \in NewOrderCalls :
        /\ leader_orders[c.leader].securityId = "OPT"
        /\ leader_orders[c.leader].quantity = 100
        /\ leader_orders[c.leader].price = LimitBuyPrice
        /\ leader_orders[c.leader].productType = "INTRADAY"
        /\ broker_funds = [leader |-> 200000, follower |-> 100000]
        /\ funds_cache = broker_funds
        /\ strategy = "capital_proportional"
        /\ c.pre_status = "none"
        /\ (c.sizer_zero \/ c.margin_fail \/ c.routed # "none")}

\* C32: with leader available 200,000, follower available 100,000, the
\* capital-proportional strategy and lot size 50, a leader limit buy of
\* quantity 100 at price 1500 produces one follower placement of quantity 50
\* at price 1500, and once the broker accepts it the mapping is placed with
\* follower quantity 50 and capital ratio 0.5.
C32_LimitBuyScenario ==
    \A c \in LimitBuyCalls :
        /\ Len(c.apis) = 1
        /\ c.apis[1].quantity = 50 /\ c.apis[1].price = LimitBuyPrice
        /\ c.fid # NoId =>
              /\ mappings[c.leader].status = "placed"
              /\ mappings[c.leader].follower_quantity = 50
              /\ 2 * mappings[c.leader].capital_ratio[1]
                    = mappings[c.leader].capital_ratio[2]

\* the calls of calculate_quantity of the last step that returned a quantity
SizingCalls == {c \in Calls : c.status = "sizing" /\ ~c.raised}

\* A x B <= cap: is the position value of quantity q within
\* max_position_size_pct of the follower's available balance?
WithinCap(c, q) ==
    (IF c.premium # 0 THEN q * c.premium ELSE q * NoPremiumPositionValue) * 100
        <= c.funds.follower * MaxPositionSizePct

\* C33: for every quantity calculate_quantity returns, the follower position
\* value (quantity x premium, or the no-premium estimate) does not exceed
\* max_position_size_pct of the follower's available balance, with or
\* without a premium and whether or not the instrument is in the cache.
C33_PositionValueWithinCap ==
    \A c \in SizingCalls : c.funds # NoFunds => WithinCap(c, c.qty)

\* the calls of calculate_quantity of the last step for a cached instrument
LotSizedCalls == {c \in SizingCalls : Instrument(c.security_id).found}

\* the raw quantity of a call, as a fraction <<numerator, denominator>>
RawOf(c) == RawQuantity(strategy, copy_ratio, c.funds, c.leader_quantity, c.premium)

C35_DisclosedQuantityClamped ==
    \A c \in NewOrderCalls : \A i \in DOMAIN c.apis :
        LET o == leader_orders[c.leader]
            call == c.apis[i]
            lot == Instrument(o.securityId).lot_size
            proportional == (call.quantity * o.disclosedQuantity) \div o.quantity
        IN o.disclosedQuantity > 0 /\ call.quantity > 0 =>
              /\ call.disclosed_quantity >= 1
              /\ call.disclosed_quantity <= call.quantity
              /\ proportional = 0 => call.disclosed_quantity = lot
              /\ proportional >= lot =>
                    call.disclosed_quantity = Min(proportional, call.quantity)

\* C36: the event log holds at most one record for each (order_id, sequence)
\* pair, whatever events were appended, the execution events that
\* handle_execution appends on each delivery included.
C36_EventKeyUnique ==
    \A i, j \in DOMAIN order_events :
        /\ order_events[i].order_id = order_events[j].order_id
        /\ order_events[i].sequence = order_events[j].sequence
        => i = j


\* the handler calls of the last step for a cancellation of a leader order
\* whose follower order is a live bracket parent
CancelOfBracketParentCalls ==
    {c \in CancelOfLiveFollowerCalls : c.pre_follower.bo_profit_value # NoValue}

UntaggedExecutionCalls ==
    {c \in Calls : /\ c.status \in ExecStatuses
                   /\ c.leg_type \notin {"target", "stop_loss"}}

ProbeFails(t) ==
    /\ pc[t] = "calling" /\ admitted_in[t] = "HALF_OPEN"
    /\ cb_state = "HALF_OPEN"
    /\ pc'[t] = "idle"
    /\ cb_last'.op = "expected_exception" /\ cb_last'.caller = t

\* C39: a probe call that fails while the breaker is half-open returns the
\* breaker to open with the failure time just recorded, so that no further
\* call is admitted until recovery_timeout has elapsed again, whatever the
\* value of failure_threshold.
C39_FailedProbeReopens ==
    [][\A t \in Callers :
          ProbeFails(t) =>
              /\ cb_state' = "OPEN"
              /\ last_failure_time' = cb_now]_vars

====
